---- MODULE Spec2Model ----
(***************************************************************************)
(* Model of the notebooks of the repository:                               *)
(*   - "Old Notebooks/03_2_ML_data_preparation_creating_labels.ipynb":     *)
(*     generate_labels and the hard-coded cohort / cohort_returned /       *)
(*     label cells;                                                        *)
(*   - "07_3_Machine_Learning_Models.ipynb": the train and test matrices,  *)
(*     their cleaning, calc_threshold and precision_at_k;                  *)
(*   - "01_Databases.ipynb": the LEFT JOIN and FULL OUTER JOIN cells.      *)
(* Each part has its own specification over its own variables.             *)
(*                                                                         *)
(* Tables are modelled by their rows.  il_dhs.ind_spells is a set of       *)
(* distinct rows; the tables derived from it are bags of rows, so that a   *)
(* join that multiplies rows is visible.  Dates are (year, month, day)     *)
(* records and "date +/- 'n months'::interval" is PostgreSQL's month       *)
(* arithmetic (the day of month is clamped to the length of the month).    *)
(***************************************************************************)
EXTENDS Integers, Sequences, FiniteSets, Bags, TLC

VARIABLES
    ind_spells,       \* rows of il_dhs.ind_spells
    tables,           \* permanent tables of the schema: table name -> bag of rows
    temp,             \* TEMP tables of the connection opened by the last generate_labels call
    nb_temp,          \* TEMP tables of the notebook's own connection (hard-coded cells)
    nb_conn,          \* which connection the notebook's conn is bound to (0: none)
    call,             \* arguments of the last generate_labels call
    printed,          \* message printed by the last generate_labels call
    df,               \* data frame returned by the last generate_labels call
    earlier,          \* an earlier generate_labels call of the run: arguments, table, frame
    y_true,           \* precision_at_k: expected labels
    y_scores,         \* precision_at_k: scores
    k,                \* precision_at_k: k, as the fraction k.num / k.den
    pk,               \* precision_at_k: position and result of the call
    mx,               \* matrix notebook: database, data frame and position of the run
    th,               \* calc_threshold: scores, threshold and predictions
    sweep,            \* precision_at_k: k and result of the previous call on the same data
    conc,             \* concurrent generate_labels callers: their positions and results
    oj,               \* databases notebook: tables, engine and result of the join cells
    gl,               \* generate_labels statement by statement: connections, position, error
    loop,             \* model-comparison loop: position, fitted models and max_p_at_k
    fi                \* feature-importance cell: importances, indices and printed lines

vars == <<ind_spells, tables, temp, nb_temp, nb_conn, call, printed, df, earlier, y_true, y_scores, k, pk,
          mx, th, sweep, conc, oj, gl, loop, fi>>

labelVars == <<ind_spells, tables, temp, nb_temp, nb_conn, call, printed, df, earlier>>
pkVars == <<y_true, y_scores, k, pk>>
extVars == <<mx, th, sweep, conc, oj, gl, loop, fi>>
restVars == <<gl, loop, fi>>

(***************************************************************************)
(* Bounds of the model.                                                    *)
(***************************************************************************)
MaxSpells == 3        \* rows of il_dhs.ind_spells
MaxN == 3             \* length of y_true and y_scores
MaxScore == 3         \* scores are 1..MaxScore hundredths
MaxSweepN == 4        \* length of separable y_true and y_scores
MaxConcSpells == 2    \* rows of il_dhs.ind_spells under concurrent callers
MaxDateSpells == 2    \* rows of il_dhs.ind_spells under calls for two dates
MaxJoinRows == 2      \* rows of sentences and of inmate
MaxCalls == 2         \* calls of generate_labels followed statement by statement
MaxImportance == 2    \* largest feature importance, in units of 1/MaxImportance
MaxLoopN == 2         \* rows of the test matrix scored in the model loop
MaxRerunRows == 1     \* rows of each table when the matrix cells are run again
MaxLabelRows == 2     \* rows of a recidivism_labels table
MaxFeatureRows == 2   \* rows of a features table

(***************************************************************************)
(* Program constants.                                                      *)
(***************************************************************************)
DefaultMonthsOff == 12
DefaultMonthsBack == 3
DefaultMonthsAhead == 24

(***************************************************************************)
(* Dates.                                                                  *)
(***************************************************************************)
Min(a, b) == IF a <= b THEN a ELSE b

MkDate(yy, mm, dd) == [y |-> yy, m |-> mm, d |-> dd]

IsLeap(yy) == (yy % 4 = 0 /\ yy % 100 # 0) \/ yy % 400 = 0

DaysInMonth(yy, mm) ==
    IF mm = 2 THEN (IF IsLeap(yy) THEN 29 ELSE 28)
    ELSE IF mm \in {4, 6, 9, 11} THEN 30 ELSE 31

\* date + 'n months'::interval (n may be negative)
AddMonths(date, n) ==
    LET total == date.y * 12 + (date.m - 1) + n
        yy == total \div 12
        mm == (total % 12) + 1
    IN  MkDate(yy, mm, Min(date.d, DaysInMonth(yy, mm)))

DateLT(a, b) ==
    \/ a.y < b.y
    \/ a.y = b.y /\ a.m < b.m
    \/ a.y = b.y /\ a.m = b.m /\ a.d < b.d

DateLE(a, b) == a = b \/ DateLT(a, b)

\* A prediction date is the character sequence of 'YYYY-MM-DD'.
DigitVal(c) ==
    CASE c = "0" -> 0 [] c = "1" -> 1 [] c = "2" -> 2 [] c = "3" -> 3
      [] c = "4" -> 4 [] c = "5" -> 5 [] c = "6" -> 6 [] c = "7" -> 7
      [] c = "8" -> 8 [] c = "9" -> 9

\* '{pred_date}'::date
ParseDate(s) ==
    MkDate(DigitVal(s[1]) * 1000 + DigitVal(s[2]) * 100 + DigitVal(s[3]) * 10 + DigitVal(s[4]),
           DigitVal(s[6]) * 10 + DigitVal(s[7]),
           DigitVal(s[9]) * 10 + DigitVal(s[10]))

IsNotDash(c) == c # "-"

\* Faulty variant: the year is left out of the suffix.
TblSuffix_NoYear(preddate) == SubSeq(SelectSeq(preddate, IsNotDash), 5, 8)

\* preddate.replace('-', '')
TblSuffix(preddate) == SelectSeq(preddate, IsNotDash)

(***************************************************************************)
(* Input domains.                                                          *)
(***************************************************************************)
Recptnos == {1, 2}

\* Dates on which spells start and end.  The first two are the bounds of the
\* cohort windows of the calls below, the last two the bounds of their forward
\* windows: every window bound is hit, and there are dates on either side of it.
SampleDates ==
    << MkDate(2006, 10, 1), MkDate(2007, 1, 1), MkDate(2008, 1, 1), MkDate(2009, 1, 1) >>

\* (start, end) index pairs into SampleDates, start <= end, of the spells of
\* benefit type tanf46: a spell ends on the date it starts or on the next one.
TanfSpans == { <<1, 1>>, <<1, 2>>, <<2, 2>>, <<2, 3>>, <<3, 3>>, <<3, 4>>, <<4, 4>> }

\* Spells of another benefit type: one that ends inside a cohort window and one
\* that starts inside the forward windows.
OtherSpans == { <<1, 1>>, <<3, 4>> }

SpellRow(r, p, b) ==
    [recptno |-> r, start_date |-> SampleDates[p[1]], end_date |-> SampleDates[p[2]],
     benefit_type |-> b]

SpellRows ==
    { SpellRow(r, p, "tanf46") : r \in Recptnos, p \in TanfSpans }
    \cup { SpellRow(r, p, "foodstamp") : r \in Recptnos, p \in OtherSpans }

RECURSIVE SubsetsUpTo(_, _)
SubsetsUpTo(S, n) ==
    IF n = 0 THEN { {} }
    ELSE LET prev == SubsetsUpTo(S, n - 1)
         IN  prev \cup { s \cup {x} : s \in prev, x \in S }

PredDates == { <<"2", "0", "0", "8", "-", "0", "1", "-", "0", "1">> }
MonthsOffSet == { DefaultMonthsOff - 3, DefaultMonthsOff }
MonthsBackSet == { DefaultMonthsBack }
MonthsAheadSet == { DefaultMonthsAhead - 12, DefaultMonthsAhead }

(***************************************************************************)
(* The queries of generate_labels and of the hard-coded cells.             *)
(***************************************************************************)
Project(s) == [recptno |-> s.recptno, start_date |-> s.start_date, end_date |-> s.end_date]

\* Faulty variant: the upper bound of the cohort window is inclusive.
Cohort_UpperInclusive(spells, P, months_off, months_back) ==
    SetToBag({ Project(s) : s \in
        { t \in spells :
            /\ DateLE(AddMonths(AddMonths(P, - months_off), - months_back), t.end_date)
            /\ DateLE(t.end_date, AddMonths(P, - months_off))
            /\ t.benefit_type = "tanf46" } })

\* CREATE TEMP TABLE cohort_... AS SELECT recptno, start_date, end_date
\* FROM il_dhs.ind_spells WHERE end_date >= ((P - off) - back)
\*   AND end_date < (P - off) AND benefit_type = 'tanf46'
Cohort(spells, P, months_off, months_back) ==
    SetToBag({ Project(s) : s \in
        { t \in spells :
            /\ DateLE(AddMonths(AddMonths(P, - months_off), - months_back), t.end_date)
            /\ DateLT(t.end_date, AddMonths(P, - months_off))
            /\ t.benefit_type = "tanf46" } })

\* Faulty variant: the lower bound of the forward window is forgotten.
Returning_NoLowerBound(spells, cohort_tbl, P, months_ahead) ==
    { Project(s) : s \in
        { t \in spells :
            /\ DateLT(t.start_date, AddMonths(P, months_ahead))
            /\ t.benefit_type = "tanf46"
            /\ t.recptno \in { a.recptno : a \in DOMAIN cohort_tbl } } }

\* Rows of il_dhs.ind_spells that pass the WHERE clause of cohort_returned.
Returning(spells, cohort_tbl, P, months_ahead) ==
    { Project(s) : s \in
        { t \in spells :
            /\ DateLE(P, t.start_date)
            /\ DateLT(t.start_date, AddMonths(P, months_ahead))
            /\ t.benefit_type = "tanf46"
            /\ t.recptno \in { a.recptno : a \in DOMAIN cohort_tbl } } }

\* Faulty variant: the order is descending, the latest spell is kept.
FirstRows_Latest(rows, r) ==
    { x \in rows : x.recptno = r /\
        \A z \in rows : z.recptno = r => DateLE(z.start_date, x.start_date) }

\* SELECT DISTINCT ON (recptno) ... ORDER BY recptno, start_date keeps, for each
\* recptno, the first row in the order; rows that tie on start_date are in no
\* defined order, so any of them may be the one kept.
FirstRows(rows, r) ==
    { x \in rows : x.recptno = r /\
        \A z \in rows : z.recptno = r => DateLE(x.start_date, z.start_date) }

\* Faulty variant: DISTINCT ON (recptno) is forgotten, every row is kept.
PickFirst_AllRows(rows) == { SetToBag(rows) }

PickFirst(rows) ==
    LET ids == { x.recptno : x \in rows }
    IN  { SetToBag({ f[r] : r \in ids }) :
            f \in { g \in [ids -> rows] : \A r \in ids : g[r] \in FirstRows(rows, r) } }

CohortReturnedChoices(spells, cohort_tbl, P, months_ahead) ==
    UNION { PickFirst(rows) : rows \in { Returning(spells, cohort_tbl, P, months_ahead) } }

\* Number of rows of the bag tbl with the given recptno.
Matches(tbl, r) ==
    LET hit == { x \in DOMAIN tbl : x.recptno = r }
    IN  BagCardinality([x \in hit |-> tbl[x]])

LabelRow(a, lab) ==
    [recptno |-> a.recptno, start_date |-> a.start_date, end_date |-> a.end_date,
     label |-> lab]

\* Faulty variant: the dates of a matched row are taken from cohort_returned (b), not
\* from the cohort (a).
Labels_ForwardDates(cohort_tbl, returned_tbl) ==
    SetToBag(
        { LabelRow(a, 0) : a \in { c \in DOMAIN cohort_tbl : Matches(returned_tbl, c.recptno) = 0 } }
        \cup
        { LabelRow(b, 1) : b \in { c \in DOMAIN returned_tbl :
                                     \E a \in DOMAIN cohort_tbl : a.recptno = c.recptno } })

\* SELECT a.recptno, a.start_date, a.end_date,
\*        CASE WHEN b.recptno IS NULL THEN 0 ELSE 1 END as label
\* FROM cohort a LEFT JOIN cohort_returned b ON a.recptno = b.recptno
Labels(cohort_tbl, returned_tbl) ==
    LET lab(a) == IF Matches(returned_tbl, a.recptno) = 0 THEN 0 ELSE 1
        mult(a) == IF Matches(returned_tbl, a.recptno) = 0 THEN 1
                   ELSE Matches(returned_tbl, a.recptno)
        out == { LabelRow(a, lab(a)) : a \in DOMAIN cohort_tbl }
    IN  [row \in out |-> cohort_tbl[Project(row)] * mult(row)]

(***************************************************************************)
(* State.                                                                  *)
(***************************************************************************)
NoTables == [n \in {} |-> EmptyBag]

NoCall == [preddate |-> <<>>, months_off |-> 0, months_back |-> 0,
           months_ahead |-> 0, overwrite |-> FALSE]

\* No earlier call is kept.
NoEarlier == [call |-> NoCall, labels |-> EmptyBag, df |-> <<>>]

CohortName(sfx) == <<"cohort", sfx>>
ReturnedName(sfx) == <<"cohort_returned", sfx>>
LabelsName(sfx) == <<"labels", sfx>>
LabelName(sfx) == <<"label", sfx>>

\* Suffix and parameters of the hard-coded cells: '2008-01-01', '1 year',
\* '3 months', '2 year'.
CellSuffix == <<"2", "0", "0", "8", "0", "1", "0", "1">>
CellDate == MkDate(2008, 1, 1)
CellMonthsOff == 12
CellMonthsBack == 3
CellMonthsAhead == 24

(***************************************************************************)
(* precision_at_k(y_true, y_scores, k).  Scores are integers (hundredths)   *)
(* and k is the fraction k.num / k.den; a precision is the fraction         *)
(* num / den.                                                               *)
(***************************************************************************)
\* The place of a[i] in the ascending order of a: the number of elements that
\* are smaller, or equal and not after it.
SortedPlace(a, i) ==
    Cardinality({ j \in 1 .. Len(a) : a[j] < a[i] \/ (a[j] = a[i] /\ j <= i) })

\* np.sort(a): the values of a in ascending order
Sort(a) == [r \in 1 .. Len(a) |-> a[CHOOSE i \in 1 .. Len(a) : SortedPlace(a, i) = r]]

\* a[::-1]
Reverse(a) == [i \in 1 .. Len(a) |-> a[Len(a) + 1 - i]]

(***************************************************************************)
(* int(k*len(y_scores)) is computed in binary floating point: k is the      *)
(* double nearest to num/den, the product with n is rounded to a double     *)
(* and then truncated.  The result is floor(num*n/den) except where num*n   *)
(* is a multiple of den, the double of k lies below num/den and the product *)
(* rounds to a double below the integer num*n/den: int(0.7*90) is 62.       *)
(* The operators below compute this with small integers; they hold for      *)
(* 0 <= num <= den and n far below 2^52.                                    *)
(***************************************************************************)
RECURSIVE Pow2(_)
Pow2(e) == IF e = 0 THEN 1 ELSE 2 * Pow2(e - 1)

\* 2^e modulo m
RECURSIVE Pow2Mod(_, _)
Pow2Mod(e, m) == IF e = 0 THEN 1 % m ELSE (2 * Pow2Mod(e - 1, m)) % m

\* The least e with num * 2^e >= den, for num > 0: the double of num/den is
\* M / 2^(52 + e) with 2^52 <= M < 2^53.
RECURSIVE BinadeFrom(_, _, _)
BinadeFrom(num, den, e) == IF num * Pow2(e) >= den THEN e ELSE BinadeFrom(num, den, e + 1)

Binade(kk) == BinadeFrom(kk.num, kk.den, 0)

\* num * 2^E - den * M for the double M / 2^E nearest to num/den: positive
\* when the double lies below num/den, 0 when num/den is a double.
DoubleResidue(kk) ==
    LET t == (kk.num * Pow2Mod(52 + Binade(kk), kk.den)) % kk.den
    IN  IF 2 * t < kk.den THEN t ELSE t - kk.den

\* The largest j with 2^j <= q, for q >= 1.
RECURSIVE Log2From(_, _)
Log2From(q, j) == IF Pow2(j + 1) > q THEN j ELSE Log2From(q, j + 1)

\* The product of the double of num/den with n, where num*n = q*den, rounds
\* to a double below q: the error of the product is more than half the gap
\* between q and the double before it (a tie rounds to q, whose mantissa is even).
RoundsBelow(kk, q) ==
    LET j == Log2From(q, 0)
        b == IF Pow2(j) = q THEN 1 ELSE 0
    IN  /\ DoubleResidue(kk) > 0
        /\ DoubleResidue(kk) * q * Pow2(1 + b) > kk.num * Pow2(Binade(kk) + j)

\* int(k*len(y_scores))
Position(kk, n) ==
    LET q == (kk.num * n) \div kk.den
    IN  IF q = 0 \/ (kk.num * n) % kk.den # 0 THEN q
        ELSE IF RoundsBelow(kk, q) THEN q - 1 ELSE q

\* Faulty variant: a score equal to the threshold is labelled 0.
Predict_Strict(scores, threshold) ==
    [i \in 1 .. Len(scores) |-> IF scores[i] > threshold THEN 1 ELSE 0]

\* [1 if i >= threshold else 0 for i in y_scores]
Predict(scores, threshold) ==
    [i \in 1 .. Len(scores) |-> IF scores[i] >= threshold THEN 1 ELSE 0]

\* precision_score(y_true, y_pred): tp / (tp + fp), and 0 when nothing is predicted positive
PrecisionScore(truth, pred) ==
    LET tp == Cardinality({ i \in 1 .. Len(pred) : pred[i] = 1 /\ truth[i] = 1 })
        pp == Cardinality({ i \in 1 .. Len(pred) : pred[i] = 1 })
    IN  IF pp = 0 THEN [num |-> 0, den |-> 1] ELSE [num |-> tp, den |-> pp]

PKIdle == [pc |-> "idle", threshold |-> 0, y_pred |-> <<>>,
           result |-> [num |-> 0, den |-> 1]]

KValues == { [num |-> j, den |-> 10] : j \in 0 .. 10 }

\* The worked example: y_true, y_scores (hundredths) and k = 0.3
ExampleTrue == <<1, 0, 1, 0, 1, 0, 0, 0, 0, 0>>
ExampleScores == <<90, 80, 70, 60, 50, 40, 30, 20, 10, 5>>
ExampleK == [num |-> 3, den |-> 10]

\* A call where the floating-point product matters: 90 rows with the scores
\* .90, .89, ..., .01, the labels 1, 0, 1, 0, ... and k = 0.7 (0.7*90 is
\* 62.99999999999999 in doubles).
RoundingTrue == [i \in 1 .. 90 |-> i % 2]
RoundingScores == [i \in 1 .. 90 |-> 91 - i]
RoundingK == [num |-> 7, den |-> 10]

(***************************************************************************)
(* 07_3_Machine_Learning_Models.ipynb: the train and the test matrix.      *)
(*                                                                         *)
(* A table is the set of its rows and a data frame the sequence of its     *)
(* rows.  Null stands for SQL NULL and for the NaN that pandas reads it    *)
(* as.  The scripts create_labels and create_features are imported by the  *)
(* notebook; what they leave in the database is taken from their           *)
(* description: one table per call, named after the years of its dates.    *)
(***************************************************************************)
Null == 0 - 1

\* Limits of the age at first admit kept by the cleaning cells.
AgeLow == 14
AgeHigh == 99

\* LIMIT of the join cells of the databases notebook.
RowLimit == 1000

\* The threshold passed to calc_threshold, 0.5, in hundredths.
CallThreshold == 50

IsNull(v) == v = Null

MatrixIds == {1, 2}

LabelTableRows == { [inmate_doc_number |-> i, recidivism |-> r] : i \in MatrixIds, r \in {0, 1} }

FeatureRow(i, n, l, a1, a) ==
    [inmate_doc_number |-> i, num_admits |-> n, length_longest_sentence |-> l,
     age_first_admit |-> a1, age |-> a]

\* Feature values: ages at first admit on both sides of each limit, a NULL in
\* either of two columns, and a current age above the upper limit.
FeatureShapes ==
    { <<1, 5, a1, 30>> : a1 \in {AgeLow - 1, AgeLow, AgeHigh, AgeHigh + 1} }
        \cup { <<1, 5, Null, 30>>, <<Null, 5, 20, 30>>, <<1, 5, 50, AgeHigh + 1>> }

FeatureTableRows ==
    { FeatureRow(i, s[1], s[2], s[3], s[4]) : i \in MatrixIds, s \in FeatureShapes }

LabelTables == SubsetsUpTo(LabelTableRows, MaxLabelRows)

FeatureTables == SubsetsUpTo(FeatureTableRows, MaxFeatureRows)

\* Names of the tables the two matrix cells read and write.
TrainLabelsName == <<"recidivism_labels", 2009, 2013>>
\* Faulty variant: the training matrix reads the features of the test matrix.
TrainFeaturesName_Later == <<"features", 2000, 2013>>

TrainFeaturesName == <<"features", 2000, 2008>>
TrainMatrixName == <<"train_matrix">>
TestLabelsName == <<"recidivism_labels", 2014, 2018>>
TestFeaturesName == <<"features", 2000, 2013>>
TestMatrixName == <<"test_matrix">>

\* create_labels(features_end, label_start, label_end, conn) and
\* create_features(features_end, label_start, label_end, conn): the table each
\* call leaves, with the dates that bound its content.
CreatedLabels(features_end, label_start, label_end) ==
    [name |-> <<"recidivism_labels", label_start.y, label_end.y>>,
     kind |-> "labels", from |-> label_start, to |-> label_end]

CreatedFeatures(features_end, label_start, label_end) ==
    [name |-> <<"features", 2000, features_end.y>>,
     kind |-> "features", from |-> MkDate(2000, 1, 1), to |-> features_end]

\* The four calls of the notebook.
CreatedTables ==
    { CreatedLabels(MkDate(2008, 12, 31), MkDate(2009, 1, 1), MkDate(2013, 12, 31)),
      CreatedLabels(MkDate(2013, 12, 31), MkDate(2014, 1, 1), MkDate(2018, 12, 31)),
      CreatedFeatures(MkDate(2008, 12, 31), MkDate(2009, 1, 1), MkDate(2013, 12, 31)),
      CreatedFeatures(MkDate(2013, 12, 31), MkDate(2014, 1, 1), MkDate(2018, 12, 31)) }

NullFeatures == [num_admits |-> Null, length_longest_sentence |-> Null,
                 age_first_admit |-> Null, age |-> Null]

\* "select l.inmate_doc_number, l.recidivism, f.num_admits,
\*  f.length_longest_sentence, f.age_first_admit, f.age"
MatrixRow(l, f) ==
    [inmate_doc_number |-> l.inmate_doc_number, recidivism |-> l.recidivism,
     num_admits |-> f.num_admits, length_longest_sentence |-> f.length_longest_sentence,
     age_first_admit |-> f.age_first_admit, age |-> f.age]

FeatureMatches(F, l) == { f \in F : f.inmate_doc_number = l.inmate_doc_number }

\* Faulty variant: an inner join, which drops the label rows without features.
LeftJoin_Inner(L, F) ==
    UNION { { MatrixRow(l, f) : f \in FeatureMatches(F, l) } : l \in L }

\* "from <labels> l left join <features> f
\*  on f.inmate_doc_number = l.inmate_doc_number"
LeftJoin(L, F) ==
    UNION { IF FeatureMatches(F, l) = {}
            THEN { MatrixRow(l, NullFeatures) }
            ELSE { MatrixRow(l, f) : f \in FeatureMatches(F, l) } : l \in L }

\* The rows of a data frame as a bag: the order of the rows is dropped.
FrameRows(frame) ==
    [x \in { frame[i] : i \in DOMAIN frame } |->
        Cardinality({ i \in DOMAIN frame : frame[i] = x })]

\* pd.read_sql of "SELECT * FROM <schema>.labels_<date>": the frames the read
\* can return.  Neither the SELECT nor the CREATE TABLE AS that filled the
\* table has an ORDER BY, so the rows come in any order.
ReadLabels(tbl) ==
    { frame \in [1 .. BagCardinality(tbl) -> BagToSet(tbl)] : FrameRows(frame) = tbl }

\* pd.read_sql of "SELECT * FROM <matrix>": the frames the read can return.
\* Without ORDER BY the engine returns the rows in any order.
ReadSql(T) ==
    { frame \in [1 .. Cardinality(T) -> T] :
         \A i, j \in 1 .. Cardinality(T) : i # j => frame[i] # frame[j] }

MatrixColumns == {"inmate_doc_number", "recidivism", "num_admits",
                  "length_longest_sentence", "age_first_admit", "age"}

\* One entry of df.isnull().any(axis=1)
AnyNull(row) == \E c \in MatrixColumns : IsNull(row[c])

\* df.isnull().any(axis=1)
IsNanRows(frame) == [i \in 1 .. Len(frame) |-> AnyNull(frame[i])]

\* df[mask]: the rows at which the mask is True, in order.
RECURSIVE Filter(_, _)
Filter(frame, mask) ==
    IF frame = <<>> THEN <<>>
    ELSE (IF Head(mask) THEN <<Head(frame)>> ELSE <<>>) \o Filter(Tail(frame), Tail(mask))

Negate(mask) == [i \in 1 .. Len(mask) |-> ~mask[i]]

\* A comparison with NaN is False.
GE(v, c) == ~IsNull(v) /\ v >= c
LE(v, c) == ~IsNull(v) /\ v <= c

\* Faulty variant: the lower limit is exclusive.
KeepTraining_Strict(frame) ==
    [i \in 1 .. Len(frame) |-> GE(frame[i].age_first_admit, AgeLow + 1)
                                 /\ LE(frame[i].age_first_admit, AgeHigh)]

\* "keep = (df_training['age_first_admit'] >= 14) & (df_training['age_first_admit'] <= 99)"
KeepTraining(frame) ==
    [i \in 1 .. Len(frame) |-> GE(frame[i].age_first_admit, AgeLow)
                                 /\ LE(frame[i].age_first_admit, AgeHigh)]

\* "keep = (df_test['age_first_admit'] >= 14) & (df_test['age_first_admit'] <= 99)"
KeepTest(frame) ==
    [i \in 1 .. Len(frame) |-> GE(frame[i].age_first_admit, AgeLow)
                                 /\ LE(frame[i].age_first_admit, AgeHigh)]

\* sel_features and sel_label
SelFeatures(row) == <<row.num_admits, row.length_longest_sentence, row.age_first_admit, row.age>>
SelLabel(row) == row.recidivism

MxIdle ==
    [pc |-> "start", which |-> "none", labels |-> {}, features |-> {},
     catalog |-> {}, db |-> NoTables, sources |-> <<>>,
     loaded |-> <<>>, df |-> <<>>, isnan |-> <<>>, nrows |-> 0, nrows_isnan |-> 0,
     rate |-> [num |-> 0, den |-> 1], error |-> "none", X |-> <<>>, y |-> <<>>]

ThIdle == [pc |-> "idle", scores |-> <<>>, threshold |-> 0, predicted |-> <<>>]

SweepNone == [pc |-> "none", k |-> [num |-> 0, den |-> 1], result |-> [num |-> 0, den |-> 1]]

\* No caller has entered generate_labels; writes lists the callers in the order
\* in which their DROP/CREATE committed.
ConcIdle ==
    [procs |-> [p \in {1, 2} |->
                  [pc |-> "idle", months_off |-> 0, overwrite |-> FALSE, printed |-> "",
                   cohort |-> EmptyBag, returned |-> EmptyBag, df |-> <<>>]],
     writes |-> <<>>]

(***************************************************************************)
(* 01_Databases.ipynb: the LEFT JOIN cell and the FULL OUTER JOIN cell.    *)
(* Each cell is sent to the database as written.  Whether the engine       *)
(* accepts FULL OUTER JOIN depends on the SQLite in use (the notebook says *)
(* it does not), so it is part of the initial state.                       *)
(***************************************************************************)
NullText == "NULL"

SentenceRows ==
    { [inmate_doc_number |-> i, actual_sentence_end_date |-> d] :
         i \in {1, 2}, d \in {"2010-01-01", "2011-01-01"} }

InmateRows ==
    { [inmate_doc_number |-> i, inmate_race_code |-> c] : i \in {2, 3}, c \in {"1", "2"} }

\* "SELECT sentences.inmate_doc_number, inmate.inmate_race_code,
\*  sentences.actual_sentence_end_date"
NoSentence == [inmate_doc_number |-> Null, actual_sentence_end_date |-> NullText]
NoInmate == [inmate_doc_number |-> Null, inmate_race_code |-> NullText]

JoinRow(pair) ==
    [inmate_doc_number |-> pair[1].inmate_doc_number,
     inmate_race_code |-> pair[2].inmate_race_code,
     actual_sentence_end_date |-> pair[1].actual_sentence_end_date]

\* The bag of the rows selected from a set of joined pairs.
JoinRows(pairs) ==
    [row \in { JoinRow(x) : x \in pairs } |-> Cardinality({ x \in pairs : JoinRow(x) = row })]

MatchedPairs(S, I) ==
    { x \in S \X I : x[1].inmate_doc_number = x[2].inmate_doc_number }

\* "FROM sentences LEFT JOIN inmate ON ..."
LeftPairs(S, I) ==
    MatchedPairs(S, I)
        \cup { <<s, NoInmate>> : s \in { t \in S : \A i \in I :
                                             i.inmate_doc_number # t.inmate_doc_number } }

\* "FROM sentences FULL OUTER JOIN inmate ON ..."
FullOuterPairs(S, I) ==
    LeftPairs(S, I)
        \cup { <<NoSentence, i>> : i \in { j \in I : \A s \in S :
                                               s.inmate_doc_number # j.inmate_doc_number } }

\* "LIMIT 1000": the results the engine can give.  Without ORDER BY it keeps
\* whichever 1000 rows it meets first.
Limit(rows) ==
    IF BagCardinality(rows) <= RowLimit THEN {rows}
    ELSE { b \in SubBag(rows) : BagCardinality(b) = RowLimit }

OjIdle ==
    [pc |-> "start", sentences |-> {}, inmate |-> {}, full_outer_supported |-> FALSE,
     left |-> [status |-> "none", rows |-> EmptyBag],
     outer |-> [status |-> "none", rows |-> EmptyBag]]

\* Faulty variant: where the engine lacks the join, an equivalent query is run.
FullOuterResult_Substituted(supported, S, I) ==
    { [status |-> "ok", rows |-> r] : r \in Limit(JoinRows(FullOuterPairs(S, I))) }

\* What the engine answers to the FULL OUTER JOIN cell.
FullOuterResult(supported, S, I) ==
    IF supported
    THEN { [status |-> "ok", rows |-> r] : r \in Limit(JoinRows(FullOuterPairs(S, I))) }
    ELSE { [status |-> "error", rows |-> EmptyBag] }

(***************************************************************************)
(* generate_labels, statement by statement, with its connection, its       *)
(* cursor and the failures of its statements.                              *)
(***************************************************************************)
NoError == [step |-> "none", kind |-> "none"]

NoTemps == [c \in {} |-> {}]

\* Before the first call.  open is the set of open connections, temps the
\* names of the TEMP tables of each of them, log the statements the current
\* call has started, prev what is kept of the call before it.
GlIdle ==
    [pc |-> "idle", calls |-> 0, conn |-> 0, open |-> {}, temps |-> NoTemps,
     cursor |-> FALSE, months_off |-> 0, overwrite |-> FALSE,
     cohort |-> EmptyBag, returned |-> EmptyBag, printed |-> "", log |-> <<>>,
     error |-> NoError, prev |-> [error |-> NoError, months_off |-> 0], df |-> <<>>]

\* Faulty variant: the calls share one connection.
NewConnection_Shared(g) == 1

\* "conn = psycopg2.connect(database=db_name, host = hostname)": a connection
\* of the call's own.
NewConnection(g) == g.calls + 1

\* Faulty variant: the failed statement is run again.
AfterFailure_Retry(g, step, kind) == [g EXCEPT !.log = Append(@, step)]

\* An exception of a statement leaves generate_labels: nothing catches it.
AfterFailure(g, step, kind) ==
    [g EXCEPT !.pc = "raised", !.error = [step |-> step, kind |-> kind],
              !.log = Append(@, step)]

\* Faulty variant: the failed ownership change undoes the build.
AlterFailed_RolledBack(tbls, name) == [n \in DOMAIN tbls \ {name} |-> tbls[n]]

\* The permanent tables after a failed ALTER TABLE: the build was committed
\* by the "commit;" before it.
AlterFailed(tbls, name) == tbls

Zero == [num |-> 0, den |-> 1]

\* The model-comparison loop has not started.
LoopIdle ==
    [pc |-> "idle", i |-> 0, fitted |-> {}, y_test |-> <<>>, y_score |-> <<>>,
     p_at_5 |-> Zero, max_p_at_k |-> Zero, hist |-> <<>>]

\* The feature-importance cell has not started.
FiIdle == [pc |-> "idle", importances |-> <<>>, indices |-> <<>>, lines |-> <<>>]

RestIdle ==
    /\ gl = GlIdle
    /\ loop = LoopIdle
    /\ fi = FiIdle

ExtIdle ==
    /\ RestIdle
    /\ mx = MxIdle
    /\ th = ThIdle
    /\ sweep = SweepNone
    /\ conc = ConcIdle
    /\ oj = OjIdle

\* The label notebook after its first connect cell: the notebook's conn is
\* its first connection, without TEMP tables.
Init ==
    /\ ind_spells \in SubsetsUpTo(SpellRows, MaxSpells)
    /\ tables = NoTables
    /\ temp = NoTables
    /\ nb_temp = NoTables
    /\ nb_conn = 1
    /\ call = NoCall
    /\ printed = ""
    /\ df = <<>>
    /\ earlier = NoEarlier
    /\ y_true = <<>>
    /\ y_scores = <<>>
    /\ k = [num |-> 0, den |-> 1]
    /\ pk = PKIdle
    /\ ExtIdle

(***************************************************************************)
(* The hard-coded cells, run top to bottom on the notebook's connection.   *)
(***************************************************************************)
CohortCell ==
    /\ nb_conn = 1
    /\ CohortName(CellSuffix) \notin DOMAIN nb_temp
    /\ nb_temp' = (CohortName(CellSuffix) :>
                     Cohort(ind_spells, CellDate, CellMonthsOff, CellMonthsBack)) @@ nb_temp
    /\ UNCHANGED <<ind_spells, tables, temp, nb_conn, call, printed, df, earlier>>
    /\ UNCHANGED pkVars
    /\ UNCHANGED extVars

CohortReturnedCell ==
    /\ nb_conn = 1
    /\ CohortName(CellSuffix) \in DOMAIN nb_temp
    /\ ReturnedName(CellSuffix) \notin DOMAIN nb_temp
    /\ \E ret \in CohortReturnedChoices(ind_spells, nb_temp[CohortName(CellSuffix)],
                                        CellDate, CellMonthsAhead) :
          nb_temp' = (ReturnedName(CellSuffix) :> ret) @@ nb_temp
    /\ UNCHANGED <<ind_spells, tables, temp, nb_conn, call, printed, df, earlier>>
    /\ UNCHANGED pkVars
    /\ UNCHANGED extVars

LabelCell ==
    /\ nb_conn = 1
    /\ ReturnedName(CellSuffix) \in DOMAIN nb_temp
    /\ LabelName(CellSuffix) \notin DOMAIN nb_temp
    /\ nb_temp' = (LabelName(CellSuffix) :>
                     Labels(nb_temp[CohortName(CellSuffix)],
                            nb_temp[ReturnedName(CellSuffix)])) @@ nb_temp
    /\ UNCHANGED <<ind_spells, tables, temp, nb_conn, call, printed, df, earlier>>
    /\ UNCHANGED pkVars
    /\ UNCHANGED extVars

\* "conn = psycopg2.connect(database=db_name, host=hostname)" and
\* "cursor = conn.cursor()", the cell after the hard-coded cells: conn and
\* cursor are bound to a new connection.  The connection of the cells loses
\* its last reference and is closed, and its TEMP tables go with it; the new
\* connection has none.
ReconnectCell ==
    /\ nb_conn = 1
    /\ LabelName(CellSuffix) \in DOMAIN nb_temp
    /\ nb_conn' = 2
    /\ nb_temp' = NoTables
    /\ UNCHANGED <<ind_spells, tables, temp, call, printed, df, earlier>>
    /\ UNCHANGED pkVars
    /\ UNCHANGED extVars

(***************************************************************************)
(* generate_labels(preddate, months_off, months_back, months_ahead,        *)
(*                 schema, overwrite)                                      *)
(***************************************************************************)
\* Faulty variant: the table is rebuilt on every call.
MustBuild_Always(tbls, sfx, overwrite) == TRUE

\* Faulty variant: the overwrite flag is ignored.
MustBuild_IgnoreOverwrite(tbls, sfx, overwrite) == LabelsName(sfx) \notin DOMAIN tbls

\* "if not(cursor.rowcount) or overwrite"
MustBuild(tbls, sfx, overwrite) == LabelsName(sfx) \notin DOMAIN tbls \/ overwrite

GenerateLabels(preddate, months_off, months_back, months_ahead, overwrite) ==
    LET sfx == TblSuffix(preddate)
        P == ParseDate(preddate)
    IN  /\ nb_conn = 2
        /\ call' = [preddate |-> preddate, months_off |-> months_off,
                    months_back |-> months_back, months_ahead |-> months_ahead,
                    overwrite |-> overwrite]
        /\ IF MustBuild(tables, sfx, overwrite)
           THEN \E coh \in { Cohort(ind_spells, P, months_off, months_back) } :
                  \E ret \in CohortReturnedChoices(ind_spells, coh, P, months_ahead) :
                      /\ temp' = (CohortName(sfx) :> coh) @@ (ReturnedName(sfx) :> ret)
                      /\ tables' = (LabelsName(sfx) :> Labels(coh, ret)) @@ tables
                      /\ printed' = "Creating table"
           ELSE /\ temp' = NoTables
                /\ tables' = tables
                /\ printed' = "Table already exists"
        /\ df' \in ReadLabels(tables'[LabelsName(sfx)])
        /\ UNCHANGED <<ind_spells, nb_temp, nb_conn>>
        /\ UNCHANGED pkVars
        /\ UNCHANGED extVars

Call ==
    \E preddate \in PredDates, months_off \in MonthsOffSet, months_back \in MonthsBackSet,
       months_ahead \in MonthsAheadSet, overwrite \in BOOLEAN :
        /\ GenerateLabels(preddate, months_off, months_back, months_ahead, overwrite)
        /\ UNCHANGED earlier

(***************************************************************************)
(* Calls of precision_at_k on bounded inputs.                              *)
(***************************************************************************)
InitPK ==
    /\ ind_spells = {}
    /\ tables = NoTables
    /\ temp = NoTables
    /\ nb_temp = NoTables
    /\ nb_conn = 0
    /\ call = NoCall
    /\ printed = ""
    /\ df = <<>>
    /\ earlier = NoEarlier
    /\ \/ /\ y_true = ExampleTrue
          /\ y_scores = ExampleScores
          /\ k = ExampleK
       \/ /\ y_true = RoundingTrue
          /\ y_scores = RoundingScores
          /\ k = RoundingK
       \/ \E n \in 0 .. MaxN :
             /\ y_true \in [1 .. n -> {0, 1}]
             /\ y_scores \in [1 .. n -> 1 .. MaxScore]
             /\ k \in KValues
    /\ pk = PKIdle
    /\ ExtIdle

\* The index is in range: the function returns.
PrecisionAtK ==
    /\ pk.pc = "idle"
    /\ Position(k, Len(y_scores)) < Len(y_scores)
    /\ \E threshold \in { Reverse(Sort(y_scores))[Position(k, Len(y_scores)) + 1] } :
         \E y_pred \in { Predict(y_scores, threshold) } :
            pk' = [pc |-> "returned", threshold |-> threshold, y_pred |-> y_pred,
                   result |-> PrecisionScore(y_true, y_pred)]
    /\ UNCHANGED <<y_true, y_scores, k>>
    /\ UNCHANGED labelVars
    /\ UNCHANGED extVars

\* The index is out of range: indexing the sorted scores raises IndexError.
PrecisionAtKIndexError ==
    /\ pk.pc = "idle"
    /\ Position(k, Len(y_scores)) >= Len(y_scores)
    /\ pk' = [pk EXCEPT !.pc = "IndexError"]
    /\ UNCHANGED <<y_true, y_scores, k>>
    /\ UNCHANGED labelVars
    /\ UNCHANGED extVars

NextPK == PrecisionAtK \/ PrecisionAtKIndexError

SpecPK == InitPK /\ [][NextPK]_vars

Next == CohortCell \/ CohortReturnedCell \/ LabelCell \/ ReconnectCell \/ Call

Spec == Init /\ [][Next]_vars

(***************************************************************************)
(* The matrix notebook, run top to bottom.  A run follows one of the two   *)
(* matrices: the statements for the training matrix or those for the test  *)
(* matrix.                                                                 *)
(***************************************************************************)
LabelVarsIdle ==
    /\ ind_spells = {}
    /\ tables = NoTables
    /\ temp = NoTables
    /\ nb_temp = NoTables
    /\ nb_conn = 0
    /\ call = NoCall
    /\ printed = ""
    /\ df = <<>>
    /\ earlier = NoEarlier

PkVarsIdle ==
    /\ y_true = <<>>
    /\ y_scores = <<>>
    /\ k = [num |-> 0, den |-> 1]
    /\ pk = PKIdle

InitMX ==
    /\ LabelVarsIdle
    /\ PkVarsIdle
    /\ \E w \in {"train", "test"}, L \in LabelTables, F \in FeatureTables :
          mx = [MxIdle EXCEPT !.which = w, !.labels = L, !.features = F]
    /\ th = ThIdle
    /\ RestIdle
    /\ sweep = SweepNone
    /\ conc = ConcIdle
    /\ oj = OjIdle

MxFrame ==
    /\ UNCHANGED labelVars
    /\ UNCHANGED pkVars
    /\ UNCHANGED <<th, sweep, conc, oj>>
    /\ UNCHANGED restVars

\* The cell calling create_labels and create_features: it leaves the four
\* tables; those of the matrix the run follows hold the rows of the run.
CreateCell ==
    /\ mx.pc = "start"
    /\ mx' = [mx EXCEPT
                !.pc = "created",
                !.catalog = CreatedTables,
                !.db = [n \in { t.name : t \in CreatedTables } |->
                          IF mx.which = "train" /\ n = TrainLabelsName THEN mx.labels
                          ELSE IF mx.which = "train" /\ n = TrainFeaturesName THEN mx.features
                          ELSE IF mx.which = "test" /\ n = TestLabelsName THEN mx.labels
                          ELSE IF mx.which = "test" /\ n = TestFeaturesName THEN mx.features
                          ELSE {}]]
    /\ MxFrame

\* "drop table if exists <matrix>;" then "create table <matrix> as select ...".
MatrixCell(w, labelsName, featuresName, matrixName) ==
    /\ mx.pc = "created"
    /\ mx.which = w
    /\ labelsName \in DOMAIN mx.db
    /\ featuresName \in DOMAIN mx.db
    /\ mx' = [mx EXCEPT
                !.pc = "joined",
                !.sources = [labels |-> labelsName, features |-> featuresName],
                !.db = (matrixName :> LeftJoin(mx.db[labelsName], mx.db[featuresName]))
                          @@ [n \in DOMAIN mx.db \ {matrixName} |-> mx.db[n]]]
    /\ MxFrame

TrainMatrixCell == MatrixCell("train", TrainLabelsName, TrainFeaturesName, TrainMatrixName)

TestMatrixCell == MatrixCell("test", TestLabelsName, TestFeaturesName, TestMatrixName)

\* "df = pd.read_sql('SELECT * FROM <matrix>;', con = conn)"
ReadMatrix(w, matrixName) ==
    /\ mx.pc = "joined"
    /\ mx.which = w
    /\ \E frame \in ReadSql(mx.db[matrixName]) :
          mx' = [mx EXCEPT !.pc = "loaded", !.loaded = frame, !.df = frame]
    /\ MxFrame

\* "isnan_rows = df.isnull().any(axis=1); nrows = df.shape[0];
\*  nrows_isnan = df[isnan_rows].shape[0];
\*  print(... float(nrows_isnan)/nrows)": the division raises
\* ZeroDivisionError on a frame without rows, after the three assignments.
NanReport(w) ==
    /\ mx.pc = "loaded"
    /\ mx.which = w
    /\ \E mask \in { IsNanRows(mx.df) } :
          mx' = [mx EXCEPT
                   !.pc = "reported",
                   !.isnan = mask,
                   !.nrows = Len(mx.df),
                   !.nrows_isnan = Len(Filter(mx.df, mask)),
                   !.rate = IF Len(mx.df) = 0 THEN mx.rate
                            ELSE [num |-> Len(Filter(mx.df, mask)), den |-> Len(mx.df)],
                   !.error = IF Len(mx.df) = 0 THEN "ZeroDivisionError" ELSE mx.error]
    /\ MxFrame

\* "df = df[~isnan_rows]"
DropNan(w) ==
    /\ mx.pc = "reported"
    /\ mx.which = w
    /\ mx' = [mx EXCEPT !.pc = "nan_dropped", !.df = Filter(mx.df, Negate(mx.isnan))]
    /\ MxFrame

\* "keep = ...; df_training = df_training[keep]"
KeepAgeTraining ==
    /\ mx.pc = "nan_dropped"
    /\ mx.which = "train"
    /\ mx' = [mx EXCEPT !.pc = "cleaned", !.df = Filter(mx.df, KeepTraining(mx.df))]
    /\ MxFrame

\* "keep = ...; df_test = df_test[keep]"
KeepAgeTest ==
    /\ mx.pc = "nan_dropped"
    /\ mx.which = "test"
    /\ mx' = [mx EXCEPT !.pc = "cleaned", !.df = Filter(mx.df, KeepTest(mx.df))]
    /\ MxFrame

\* "X = df[sel_features].values; y = df[sel_label].values"
Split(w) ==
    /\ mx.pc = "cleaned"
    /\ mx.which = w
    /\ mx' = [mx EXCEPT
                !.pc = "split",
                !.X = [i \in 1 .. Len(mx.df) |-> SelFeatures(mx.df[i])],
                !.y = [i \in 1 .. Len(mx.df) |-> SelLabel(mx.df[i])]]
    /\ MxFrame

NextMX ==
    \/ CreateCell
    \/ TrainMatrixCell
    \/ ReadMatrix("train", TrainMatrixName)
    \/ NanReport("train")
    \/ DropNan("train")
    \/ KeepAgeTraining
    \/ Split("train")
    \/ TestMatrixCell
    \/ ReadMatrix("test", TestMatrixName)
    \/ NanReport("test")
    \/ DropNan("test")
    \/ KeepAgeTest
    \/ Split("test")

SpecMX == InitMX /\ [][NextMX]_vars

(***************************************************************************)
(* calc_threshold and the cell that applies it to the scores.  Scores and  *)
(* thresholds are hundredths.                                              *)
(***************************************************************************)
\* Faulty variant: a score equal to the threshold is mapped to 0.
CalcThreshold_Inclusive(x, y) == IF x <= y THEN 0 ELSE 1

\* "calc_threshold = lambda x,y: 0 if x < y else 1"
CalcThreshold(x, y) == IF x < y THEN 0 ELSE 1

\* Scores on both sides of each threshold, and the ends of the scale.
ScoreValues == {0, CallThreshold - 1, CallThreshold, CallThreshold + 1, 100}

Thresholds == {CallThreshold - 25, CallThreshold, CallThreshold + 25}

InitTH ==
    /\ LabelVarsIdle
    /\ PkVarsIdle
    /\ mx = MxIdle
    /\ \E n \in 0 .. MaxN :
          \E scores \in [1 .. n -> ScoreValues], y \in Thresholds :
             th = [ThIdle EXCEPT !.scores = scores, !.threshold = y]
    /\ RestIdle
    /\ sweep = SweepNone
    /\ conc = ConcIdle
    /\ oj = OjIdle

\* "predicted = np.array([calc_threshold(score, 0.5) for score in y_scores])"
ApplyThreshold ==
    /\ th.pc = "idle"
    /\ th' = [th EXCEPT
                !.pc = "done",
                !.predicted = [i \in 1 .. Len(th.scores) |->
                                  CalcThreshold(th.scores[i], th.threshold)]]
    /\ UNCHANGED labelVars
    /\ UNCHANGED pkVars
    /\ UNCHANGED <<mx, sweep, conc, oj>>
    /\ UNCHANGED restVars

NextTH == ApplyThreshold

SpecTH == InitTH /\ [][NextTH]_vars

(***************************************************************************)
(* Two calls of precision_at_k on the same separable data, the second with *)
(* a larger k (the notebook calls it at 1% and then at 5%).                *)
(***************************************************************************)
\* The scores are distinct and every positive scores above every negative.
Separable(truth, scores) ==
    /\ \A i, j \in 1 .. Len(scores) : i # j => scores[i] # scores[j]
    /\ \A i, j \in 1 .. Len(scores) :
          (truth[i] = 1 /\ truth[j] = 0) => scores[i] > scores[j]

InitSweep ==
    /\ LabelVarsIdle
    /\ \E n \in 1 .. MaxSweepN :
          /\ y_scores \in [1 .. n -> 1 .. n]
          /\ y_true \in [1 .. n -> {0, 1}]
          /\ Separable(y_true, y_scores)
    /\ k \in KValues \ {[num |-> 0, den |-> 10]}
    /\ pk = PKIdle
    /\ ExtIdle

\* The next call, on the same data with a larger k.
SecondCall ==
    /\ pk.pc = "returned"
    /\ sweep.pc = "none"
    /\ \E k2 \in KValues :
          /\ k2.num > k.num
          /\ k' = k2
    /\ sweep' = [pc |-> "first", k |-> k, result |-> pk.result]
    /\ pk' = PKIdle
    /\ UNCHANGED <<y_true, y_scores>>
    /\ UNCHANGED labelVars
    /\ UNCHANGED <<mx, th, conc, oj>>
    /\ UNCHANGED restVars

NextSweep == PrecisionAtK \/ PrecisionAtKIndexError \/ SecondCall

SpecSweep == InitSweep /\ [][NextSweep]_vars

(***************************************************************************)
(* Two callers of generate_labels for the same prediction date, each on    *)
(* its own connection.  A caller's steps are its statements: the check on  *)
(* pg_tables, the two TEMP tables, the DROP/CREATE of labels_<date>, the   *)
(* commit that ends their transaction, and the final read.                 *)
(***************************************************************************)
Callers == {1, 2}

ConcPredDate == CHOOSE d \in PredDates : TRUE

ConcSfx == TblSuffix(ConcPredDate)

\* tanf46 spells of one entity.
ConcSpellRows == { SpellRow(1, p, "tanf46") : p \in TanfSpans }

InitConc ==
    /\ ind_spells \in SubsetsUpTo(ConcSpellRows, MaxConcSpells)
    /\ tables = NoTables
    /\ temp = NoTables
    /\ nb_temp = NoTables
    /\ nb_conn = 2
    /\ call = NoCall
    /\ printed = ""
    /\ df = <<>>
    /\ earlier = NoEarlier
    /\ PkVarsIdle
    /\ ExtIdle

ConcFrame ==
    /\ UNCHANGED <<ind_spells, temp, nb_temp, nb_conn, call, printed, df, earlier>>
    /\ UNCHANGED pkVars
    /\ UNCHANGED <<mx, th, sweep, oj>>
    /\ UNCHANGED restVars

\* generate_labels(preddate, months_off=..., overwrite=...) is entered.
StartCall(p) ==
    /\ conc.procs[p].pc = "idle"
    /\ \E months_off \in MonthsOffSet, overwrite \in BOOLEAN :
          conc' = [conc EXCEPT !.procs[p] =
                      [@ EXCEPT !.pc = "check", !.months_off = months_off,
                                !.overwrite = overwrite]]
    /\ UNCHANGED tables
    /\ ConcFrame

\* "SELECT * FROM pg_tables WHERE tablename = 'labels_<date>' ...", then
\* "if not(cursor.rowcount) or overwrite".
CheckExists(p) ==
    /\ conc.procs[p].pc = "check"
    /\ conc' = [conc EXCEPT !.procs[p] =
                  [@ EXCEPT !.pc = IF MustBuild(tables, ConcSfx, conc.procs[p].overwrite)
                                   THEN "temp" ELSE "read",
                            !.printed = IF MustBuild(tables, ConcSfx, conc.procs[p].overwrite)
                                        THEN "Creating table" ELSE "Table already exists"]]
    /\ UNCHANGED tables
    /\ ConcFrame

\* The first two statements of sql: the TEMP tables cohort_<date> and
\* cohort_returned_<date> of the caller's connection.
BuildTemp(p) ==
    /\ conc.procs[p].pc = "temp"
    /\ \E coh \in { Cohort(ind_spells, ParseDate(ConcPredDate),
                           conc.procs[p].months_off, DefaultMonthsBack) } :
         \E ret \in CohortReturnedChoices(ind_spells, coh, ParseDate(ConcPredDate),
                                          DefaultMonthsAhead) :
            conc' = [conc EXCEPT !.procs[p] =
                        [@ EXCEPT !.pc = "replace", !.cohort = coh, !.returned = ret]]
    /\ UNCHANGED tables
    /\ ConcFrame

\* Faulty variant: the new rows are added to the rows already stored.
Replaced_Appended(tbls, name, rows) ==
    (name :> (IF name \in DOMAIN tbls THEN tbls[name] (+) rows ELSE rows)) @@ tbls

\* "DROP TABLE IF EXISTS labels_<date>; CREATE TABLE labels_<date> AS ...; commit;"
Replaced(tbls, name, rows) == (name :> rows) @@ tbls

\* Another caller has executed its DROP/CREATE and has not committed it.
OpenTransaction(p) == \E q \in Callers \ {p} : conc.procs[q].pc = "commit"

\* "DROP TABLE IF EXISTS labels_<date>; CREATE TABLE labels_<date> AS ...",
\* executed in the caller's transaction.  While another caller's transaction
\* on the table is open: if the table is stored, the DROP waits for that
\* caller's lock (the step is not enabled before its commit); if no table is
\* stored, the DROP finds nothing and the CREATE waits on the other caller's
\* uncommitted table.
DropCreate(p) ==
    /\ conc.procs[p].pc = "replace"
    /\ OpenTransaction(p) => LabelsName(ConcSfx) \notin DOMAIN tables
    /\ conc' = [conc EXCEPT !.procs[p] =
                  [@ EXCEPT !.pc = IF OpenTransaction(p) THEN "blocked" ELSE "commit"]]
    /\ UNCHANGED tables
    /\ ConcFrame

\* "commit;": the table of the caller replaces the stored one.
CommitTable(p) ==
    /\ conc.procs[p].pc = "commit"
    /\ tables' = Replaced(tables, LabelsName(ConcSfx),
                          Labels(conc.procs[p].cohort, conc.procs[p].returned))
    /\ conc' = [conc EXCEPT !.procs[p] = [@ EXCEPT !.pc = "read"],
                            !.writes = Append(@, p)]
    /\ ConcFrame

\* The caller the CREATE waited for has committed: the relation exists, the
\* CREATE fails and cursor.execute(sql) raises in generate_labels.
CreateFails(p) ==
    /\ conc.procs[p].pc = "blocked"
    /\ ~OpenTransaction(p)
    /\ conc' = [conc EXCEPT !.procs[p] = [@ EXCEPT !.pc = "raised"]]
    /\ UNCHANGED tables
    /\ ConcFrame

\* "df = pd.read_sql('SELECT * FROM labels_<date>', conn); return df".
\* While another caller's DROP/CREATE is uncommitted the SELECT waits for
\* that caller's lock on the table (the step is not enabled before its
\* commit) and then reads the table that caller has committed.
ReadTable(p) ==
    /\ conc.procs[p].pc = "read"
    /\ ~OpenTransaction(p)
    /\ \E frame \in ReadLabels(tables[LabelsName(ConcSfx)]) :
          conc' = [conc EXCEPT !.procs[p] = [@ EXCEPT !.pc = "done", !.df = frame]]
    /\ UNCHANGED tables
    /\ ConcFrame

NextConc ==
    \E p \in Callers :
        \/ StartCall(p) \/ CheckExists(p) \/ BuildTemp(p)
        \/ DropCreate(p) \/ CommitTable(p) \/ CreateFails(p) \/ ReadTable(p)

SpecConc == InitConc /\ [][NextConc]_vars

(***************************************************************************)
(* generate_labels called repeatedly on the same data: one call of the run *)
(* is kept, with the tables it left and the frame it returned, so that any *)
(* later call can be compared with it.                                     *)
(***************************************************************************)
\* The label notebook after its second connect cell.
InitRepeat ==
    /\ ind_spells \in SubsetsUpTo(SpellRows, MaxSpells)
    /\ tables = NoTables
    /\ temp = NoTables
    /\ nb_temp = NoTables
    /\ nb_conn = 2
    /\ call = NoCall
    /\ printed = ""
    /\ df = <<>>
    /\ earlier = NoEarlier
    /\ PkVarsIdle
    /\ ExtIdle

\* An overwriting call that returns is kept, or not; a kept call stays.
Remember ==
    earlier' \in
        IF earlier # NoEarlier \/ ~ call'.overwrite THEN { earlier }
        ELSE { earlier,
               [call |-> call',
                labels |-> tables'[LabelsName(TblSuffix(call'.preddate))],
                df |-> df'] }

\* The calls of this run all overwrite.
CallRepeat ==
    \E preddate \in PredDates, months_off \in MonthsOffSet, months_back \in MonthsBackSet,
       months_ahead \in MonthsAheadSet, overwrite \in {TRUE} :
        /\ GenerateLabels(preddate, months_off, months_back, months_ahead, overwrite)
        /\ Remember

NextRepeat == CallRepeat

SpecRepeat == InitRepeat /\ [][NextRepeat]_vars

(***************************************************************************)
(* generate_labels called for the three prediction dates of the notebook.  *)
(***************************************************************************)
NotebookPredDates ==
    { <<"2", "0", "0", "8", "-", "0", "1", "-", "0", "1">>,
      <<"2", "0", "0", "9", "-", "0", "1", "-", "0", "1">>,
      <<"2", "0", "1", "0", "-", "0", "1", "-", "0", "1">> }

InitDates ==
    /\ ind_spells \in SubsetsUpTo(SpellRows, MaxDateSpells)
    /\ tables = NoTables
    /\ temp = NoTables
    /\ nb_temp = NoTables
    /\ nb_conn = 1
    /\ call = NoCall
    /\ printed = ""
    /\ df = <<>>
    /\ earlier = NoEarlier
    /\ PkVarsIdle
    /\ ExtIdle

CallDates ==
    \E preddate \in NotebookPredDates, months_off \in MonthsOffSet, overwrite \in BOOLEAN :
        /\ GenerateLabels(preddate, months_off, DefaultMonthsBack, DefaultMonthsAhead, overwrite)
        /\ UNCHANGED earlier

NextDates == CohortCell \/ CohortReturnedCell \/ LabelCell \/ ReconnectCell \/ CallDates

SpecDates == InitDates /\ [][NextDates]_vars

InitOJ ==
    /\ LabelVarsIdle
    /\ PkVarsIdle
    /\ mx = MxIdle
    /\ th = ThIdle
    /\ RestIdle
    /\ sweep = SweepNone
    /\ conc = ConcIdle
    /\ \E S \in SubsetsUpTo(SentenceRows, MaxJoinRows), I \in SubsetsUpTo(InmateRows, MaxJoinRows),
          supported \in BOOLEAN :
          oj = [OjIdle EXCEPT !.sentences = S, !.inmate = I, !.full_outer_supported = supported]

OjFrame ==
    /\ UNCHANGED labelVars
    /\ UNCHANGED pkVars
    /\ UNCHANGED <<mx, th, sweep, conc>>
    /\ UNCHANGED restVars

LeftJoinCell ==
    /\ oj.pc = "start"
    /\ \E rows \in Limit(JoinRows(LeftPairs(oj.sentences, oj.inmate))) :
          oj' = [oj EXCEPT !.pc = "left_done", !.left = [status |-> "ok", rows |-> rows]]
    /\ OjFrame

FullOuterJoinCell ==
    /\ oj.pc = "left_done"
    /\ \E outer \in FullOuterResult(oj.full_outer_supported, oj.sentences, oj.inmate) :
          oj' = [oj EXCEPT !.pc = "outer_done", !.outer = outer]
    /\ OjFrame

NextOJ == LeftJoinCell \/ FullOuterJoinCell

SpecOJ == InitOJ /\ [][NextOJ]_vars

InitGL ==
    /\ ind_spells \in SubsetsUpTo(ConcSpellRows, MaxConcSpells)
    /\ tables = NoTables
    /\ temp = NoTables
    /\ nb_temp = NoTables
    /\ nb_conn = 2
    /\ call = NoCall
    /\ printed = ""
    /\ df = <<>>
    /\ earlier = NoEarlier
    /\ PkVarsIdle
    /\ ExtIdle

GlFrame ==
    /\ UNCHANGED <<ind_spells, temp, nb_temp, nb_conn, call, printed, df, earlier>>
    /\ UNCHANGED pkVars
    /\ UNCHANGED <<mx, th, sweep, conc, oj, loop, fi>>

\* generate_labels is entered and the connection and the cursor are opened.
GlConnect ==
    /\ gl.pc \in {"idle", "returned", "raised"}
    /\ gl.calls < MaxCalls
    /\ \E months_off \in MonthsOffSet, overwrite \in BOOLEAN, c \in { NewConnection(gl) } :
          gl' = [gl EXCEPT
                   !.pc = "check", !.calls = @ + 1, !.conn = c, !.open = @ \cup {c},
                   !.temps = IF c \in DOMAIN gl.temps THEN gl.temps ELSE (c :> {}) @@ gl.temps,
                   !.cursor = TRUE, !.months_off = months_off, !.overwrite = overwrite,
                   !.cohort = EmptyBag, !.returned = EmptyBag, !.printed = "",
                   !.log = <<"connect">>, !.error = NoError,
                   !.prev = [error |-> gl.error, months_off |-> gl.months_off],
                   !.df = <<>>]
    /\ UNCHANGED tables
    /\ GlFrame

\* psycopg2.connect raises: no connection is opened.
GlConnectFails ==
    /\ gl.pc \in {"idle", "returned", "raised"}
    /\ gl.calls < MaxCalls
    /\ \E months_off \in MonthsOffSet, overwrite \in BOOLEAN :
          gl' = AfterFailure([gl EXCEPT
                                !.calls = @ + 1, !.conn = 0, !.cursor = FALSE,
                                !.months_off = months_off, !.overwrite = overwrite,
                                !.cohort = EmptyBag, !.returned = EmptyBag, !.printed = "",
                                !.log = <<>>, !.error = NoError,
                                !.prev = [error |-> gl.error, months_off |-> gl.months_off],
                                !.df = <<>>],
                             "connect", "failure")
    /\ UNCHANGED tables
    /\ GlFrame

\* The query on pg_tables and "if not(cursor.rowcount) or overwrite".
GlCheck ==
    /\ gl.pc = "check"
    /\ gl' = [gl EXCEPT
                !.pc = IF MustBuild(tables, ConcSfx, gl.overwrite)
                       THEN "temp_cohort" ELSE "cursor_close",
                !.printed = IF MustBuild(tables, ConcSfx, gl.overwrite)
                            THEN "Creating table" ELSE "Table already exists",
                !.log = Append(@, "check")]
    /\ UNCHANGED tables
    /\ GlFrame

\* "CREATE TEMP TABLE cohort_<date> AS ...; COMMIT;": fails when the
\* connection already has a TEMP table of that name.
GlTempCohort ==
    /\ gl.pc = "temp_cohort"
    /\ IF CohortName(ConcSfx) \in gl.temps[gl.conn]
       THEN gl' = AfterFailure(gl, "temp_cohort", "DuplicateTable")
       ELSE gl' = [gl EXCEPT
                     !.pc = "temp_returned",
                     !.temps[gl.conn] = @ \cup {CohortName(ConcSfx)},
                     !.cohort = Cohort(ind_spells, ParseDate(ConcPredDate),
                                       gl.months_off, DefaultMonthsBack),
                     !.log = Append(@, "temp_cohort")]
    /\ UNCHANGED tables
    /\ GlFrame

\* "CREATE TEMP TABLE cohort_returned_<date> AS ...; COMMIT;"
GlTempReturned ==
    /\ gl.pc = "temp_returned"
    /\ IF ReturnedName(ConcSfx) \in gl.temps[gl.conn]
       THEN gl' = AfterFailure(gl, "temp_returned", "DuplicateTable")
       ELSE \E ret \in CohortReturnedChoices(ind_spells, gl.cohort, ParseDate(ConcPredDate),
                                             DefaultMonthsAhead) :
               gl' = [gl EXCEPT
                        !.pc = "create_labels",
                        !.temps[gl.conn] = @ \cup {ReturnedName(ConcSfx)},
                        !.returned = ret,
                        !.log = Append(@, "temp_returned")]
    /\ UNCHANGED tables
    /\ GlFrame

\* "DROP TABLE IF EXISTS labels_<date>; CREATE TABLE labels_<date> AS ...; commit;"
GlCreateLabels ==
    /\ gl.pc = "create_labels"
    /\ tables' = Replaced(tables, LabelsName(ConcSfx), Labels(gl.cohort, gl.returned))
    /\ gl' = [gl EXCEPT !.pc = "alter_owner", !.log = Append(@, "create_labels")]
    /\ GlFrame

\* "ALTER TABLE labels_<date> OWNER TO <schema>_admin;"
GlAlterOwner ==
    /\ gl.pc = "alter_owner"
    /\ gl' = [gl EXCEPT !.pc = "cursor_close", !.log = Append(@, "alter_owner")]
    /\ UNCHANGED tables
    /\ GlFrame

\* "cursor.close()"
GlCursorClose ==
    /\ gl.pc = "cursor_close"
    /\ gl' = [gl EXCEPT !.pc = "read", !.cursor = FALSE, !.log = Append(@, "cursor_close")]
    /\ UNCHANGED tables
    /\ GlFrame

\* "df = pd.read_sql(sql, conn); return df"
GlRead ==
    /\ gl.pc = "read"
    /\ \E frame \in ReadLabels(tables[LabelsName(ConcSfx)]) :
          gl' = [gl EXCEPT !.pc = "returned", !.df = frame, !.log = Append(@, "read")]
    /\ UNCHANGED tables
    /\ GlFrame

\* The statement about to run fails in the database or on the connection.
GlFail ==
    /\ gl.pc \in {"check", "temp_cohort", "temp_returned", "create_labels", "alter_owner", "read"}
    /\ gl' = AfterFailure(gl, gl.pc, "failure")
    /\ tables' = IF gl.pc = "alter_owner" THEN AlterFailed(tables, LabelsName(ConcSfx))
                 ELSE tables
    /\ GlFrame

\* The interpreter finalises the connection object of a call that is over,
\* which closes the connection; when it does so is up to the interpreter.
GlFinalize ==
    /\ \E c \in gl.open :
          /\ c # gl.conn \/ gl.pc \in {"returned", "raised"}
          /\ gl' = [gl EXCEPT !.open = @ \ {c},
                              !.temps = [d \in DOMAIN gl.temps \ {c} |-> gl.temps[d]]]
    /\ UNCHANGED tables
    /\ GlFrame

NextGL ==
    \/ GlConnect \/ GlConnectFails \/ GlCheck \/ GlTempCohort \/ GlTempReturned
    \/ GlCreateLabels \/ GlAlterOwner \/ GlCursorClose \/ GlRead \/ GlFail \/ GlFinalize

SpecGL == InitGL /\ [][NextGL]_vars

(***************************************************************************)
(* The random baseline cell: a uniform random score per test row, the      *)
(* scores thresholded at 0.5, and precision_at_k called on the thresholded *)
(* values.  The cell passes k = 0.05; the other values of k are those of    *)
(* the properties that speak of every k.                                   *)
(***************************************************************************)
\* "precision_at_k(expected,random_predicted, 0.05)": the k of the cell
TopFive == [num |-> 5, den |-> 100]

BaseKValues == KValues \cup {TopFive}

\* The cell has not reached its call of precision_at_k.
PKPending == [PKIdle EXCEPT !.pc = "pending"]

\* "random_score = [np.random.uniform(0,1) for i in enumerate(y_test)]"
InitBase ==
    /\ LabelVarsIdle
    /\ \E n \in 0 .. MaxN :
          /\ y_true \in [1 .. n -> {0, 1}]
          /\ \E random_score \in [1 .. n -> ScoreValues] :
                th = [ThIdle EXCEPT !.scores = random_score, !.threshold = CallThreshold]
    /\ y_scores = <<>>
    /\ k \in BaseKValues
    /\ pk = PKPending
    /\ mx = MxIdle
    /\ sweep = SweepNone
    /\ conc = ConcIdle
    /\ oj = OjIdle
    /\ RestIdle

\* "precision_at_k(expected,random_predicted, 0.05)": random_predicted, the
\* thresholded values, is bound to the parameter y_scores.
BaselineCall ==
    /\ th.pc = "done"
    /\ pk.pc = "pending"
    /\ y_scores' = th.predicted
    /\ pk' = PKIdle
    /\ UNCHANGED <<y_true, k>>
    /\ UNCHANGED labelVars
    /\ UNCHANGED extVars

NextBase == ApplyThreshold \/ BaselineCall \/ PrecisionAtK \/ PrecisionAtKIndexError

SpecBase == InitBase /\ [][NextBase]_vars

(***************************************************************************)
(* The feature-importance cell: the importances of the fitted model are    *)
(* ranked and printed, one line per feature.                               *)
(***************************************************************************)
\* "sel_features = ['num_admits', 'length_longest_sentence', 'age_first_admit', 'age']"
SelFeatureNames == <<"num_admits", "length_longest_sentence", "age_first_admit", "age">>

\* "np.argsort(importances)[::-1]": the positions of the importances from the
\* largest to the smallest; the order among equal importances is the sort's.
Argsorts(importances) ==
    { p \in [1 .. Len(importances) -> 1 .. Len(importances)] :
         /\ \A i, j \in 1 .. Len(importances) : i # j => p[i] # p[j]
         /\ \A i, j \in 1 .. Len(importances) :
               i < j => importances[p[i]] >= importances[p[j]] }

\* "importances = clf.feature_importances_": one value per column of X_test,
\* in units of 1/MaxImportance.
InitFI ==
    /\ LabelVarsIdle
    /\ PkVarsIdle
    /\ mx = MxIdle
    /\ th = ThIdle
    /\ sweep = SweepNone
    /\ conc = ConcIdle
    /\ oj = OjIdle
    /\ gl = GlIdle
    /\ loop = LoopIdle
    /\ \E importances \in [1 .. Len(SelFeatureNames) -> 0 .. MaxImportance] :
          fi = [FiIdle EXCEPT !.pc = "importances", !.importances = importances]

FiFrame ==
    /\ UNCHANGED labelVars
    /\ UNCHANGED pkVars
    /\ UNCHANGED <<mx, th, sweep, conc, oj, gl, loop>>

\* "indices = np.argsort(importances)[::-1]"
FiArgsort ==
    /\ fi.pc = "importances"
    /\ \E indices \in Argsorts(fi.importances) :
          fi' = [fi EXCEPT !.pc = "print", !.indices = indices]
    /\ FiFrame

\* One pass of "for f in range(X_test.shape[1])": the line
\* "%d. %s (%f)" % (f + 1, sel_features[f], importances[indices[f]])
FiPrintLine ==
    /\ fi.pc = "print"
    /\ \E f \in { Len(fi.lines) + 1 } :
          fi' = [fi EXCEPT
                   !.lines = Append(@, [rank |-> f,
                                        name |-> SelFeatureNames[f],
                                        importance |-> fi.importances[fi.indices[f]]]),
                   !.pc = IF f = Len(SelFeatureNames) THEN "printed" ELSE "print"]
    /\ FiFrame

NextFI == FiArgsort \/ FiPrintLine

SpecFI == InitFI /\ [][NextFI]_vars

(***************************************************************************)
(* The model-comparison loop: each classifier of sel_clfs is fitted on the *)
(* training matrix, scores the test matrix, and max_p_at_k keeps the best  *)
(* precision at 5%.  What a fitted classifier scores is not determined by  *)
(* the notebook, so the scores of a pass are any score vector.             *)
(***************************************************************************)
\* "sel_clfs = ['DT', 'RF', 'ET', 'GB']"
SelClfs == <<"DT", "RF", "ET", "GB">>

\* a < b for two fractions with positive denominators
Less(a, b) == a.num * b.den < b.num * a.den

\* The value precision_at_k returns when its index is in range.
PrecisionAtKValue(truth, scores, kk) ==
    PrecisionScore(truth, Predict(scores, Reverse(Sort(scores))[Position(kk, Len(scores)) + 1]))

\* Faulty variant: the value of the last pass is kept.
UpdateMax_Last(max_p_at_k, p_at_5) == p_at_5

\* "if max_p_at_k < p_at_5: max_p_at_k = p_at_5"
UpdateMax(max_p_at_k, p_at_5) == IF Less(max_p_at_k, p_at_5) THEN p_at_5 ELSE max_p_at_k

\* "max_p_at_k = 0", before the first pass; y_test is the label column of the
\* test matrix.
InitLoop ==
    /\ LabelVarsIdle
    /\ PkVarsIdle
    /\ mx = MxIdle
    /\ th = ThIdle
    /\ sweep = SweepNone
    /\ conc = ConcIdle
    /\ oj = OjIdle
    /\ gl = GlIdle
    /\ fi = FiIdle
    /\ \E n \in 0 .. MaxLoopN :
          \E y_test \in [1 .. n -> {0, 1}] :
             loop = [LoopIdle EXCEPT !.pc = "fit", !.y_test = y_test]

LoopFrame ==
    /\ UNCHANGED labelVars
    /\ UNCHANGED pkVars
    /\ UNCHANGED <<mx, th, sweep, conc, oj, gl, fi>>

\* "clf = clfs[clfNM]; clf.fit( X_train, y_train )"
LoopFit ==
    /\ loop.pc = "fit"
    /\ loop' = [loop EXCEPT !.pc = "score", !.fitted = @ \cup {SelClfs[loop.i + 1]}]
    /\ LoopFrame

\* "y_score = clf.predict_proba(X_test)[:,1]", "p_at_5 = precision_at_k(expected,
\* y_score, 0.05)" and the update of max_p_at_k: the end of a pass.
LoopScore ==
    /\ loop.pc = "score"
    /\ SelClfs[loop.i + 1] \in loop.fitted
    /\ Position(TopFive, Len(loop.y_test)) < Len(loop.y_test)
    /\ \E y_score \in [1 .. Len(loop.y_test) -> 1 .. MaxScore] :
          \E p_at_5 \in { PrecisionAtKValue(loop.y_test, y_score, TopFive) } :
             \E m \in { UpdateMax(loop.max_p_at_k, p_at_5) } :
                loop' = [loop EXCEPT
                           !.pc = IF loop.i + 1 = Len(SelClfs) THEN "done" ELSE "fit",
                           !.i = @ + 1,
                           !.y_score = y_score,
                           !.p_at_5 = p_at_5,
                           !.max_p_at_k = m,
                           !.hist = Append(@, [clf |-> SelClfs[loop.i + 1],
                                               p_at_5 |-> p_at_5,
                                               max_p_at_k |-> m])]
    /\ LoopFrame

\* The test matrix is empty: scoring it raises and the loop ends in the first pass.
LoopScoreRaises ==
    /\ loop.pc = "score"
    /\ Position(TopFive, Len(loop.y_test)) >= Len(loop.y_test)
    /\ loop' = [loop EXCEPT !.pc = "raised"]
    /\ LoopFrame

NextLoop == LoopFit \/ LoopScore \/ LoopScoreRaises

SpecLoop == InitLoop /\ [][NextLoop]_vars

(***************************************************************************)
(* The two matrix cells run any number of times, in any order, on the four *)
(* tables of create_labels and create_features.                            *)
(***************************************************************************)
\* Feature rows of the repeated runs: one complete and one with a NULL.
RerunFeatureRows == { r \in FeatureTableRows : r.age_first_admit \in {AgeLow, Null} }

RerunLabelTables == SubsetsUpTo(LabelTableRows, MaxRerunRows)

RerunFeatureTables == SubsetsUpTo(RerunFeatureRows, MaxRerunRows)

\* Faulty variant: the table is left in place.
DropIfExists_Kept(db, name) == db

\* "drop table if exists <matrix>;"
DropIfExists(db, name) == [n \in DOMAIN db \ {name} |-> db[n]]

\* "create table <matrix> as select ...": fails when the table exists.
CreateTableAs(db, name, rows) ==
    IF name \in DOMAIN db
    THEN [db |-> db, error |-> "table already exists"]
    ELSE [db |-> (name :> rows) @@ db, error |-> "none"]

\* The state after the cell that calls create_labels and create_features.
InitRerun ==
    /\ LabelVarsIdle
    /\ PkVarsIdle
    /\ th = ThIdle
    /\ RestIdle
    /\ sweep = SweepNone
    /\ conc = ConcIdle
    /\ oj = OjIdle
    /\ \E L1 \in RerunLabelTables, F1 \in RerunFeatureTables,
          L2 \in RerunLabelTables, F2 \in RerunFeatureTables :
          mx = [MxIdle EXCEPT
                  !.pc = "created",
                  !.catalog = CreatedTables,
                  !.db = (TrainLabelsName :> L1) @@ (TrainFeaturesName :> F1)
                            @@ (TestLabelsName :> L2) @@ (TestFeaturesName :> F2)]

\* One execution of a matrix cell: the two statements, the second on what the
\* first left.  pc tells a first run of the cell from a run on an existing table.
RunMatrixCell(w, labelsName, featuresName, matrixName) ==
    /\ mx.pc \in {"created", "joined", "rerun"}
    /\ \E dropped \in { DropIfExists(mx.db, matrixName) } :
          \E made \in { CreateTableAs(dropped, matrixName,
                                      LeftJoin(dropped[labelsName], dropped[featuresName])) } :
             mx' = [mx EXCEPT
                      !.pc = IF made.error # "none" THEN "raised"
                             ELSE IF matrixName \in DOMAIN mx.db THEN "rerun" ELSE "joined",
                      !.which = w,
                      !.sources = [labels |-> labelsName, features |-> featuresName],
                      !.db = made.db,
                      !.error = made.error]
    /\ MxFrame

RunTrainMatrixCell == RunMatrixCell("train", TrainLabelsName, TrainFeaturesName, TrainMatrixName)

RunTestMatrixCell == RunMatrixCell("test", TestLabelsName, TestFeaturesName, TestMatrixName)

NextRerun == RunTrainMatrixCell \/ RunTestMatrixCell

SpecRerun == InitRerun /\ [][NextRerun]_vars








(***************************************************************************)
(* Vocabulary of the properties.                                           *)
(***************************************************************************)
Built == printed = "Creating table"
Skipped == printed = "Table already exists"

CallSfx == TblSuffix(call.preddate)
CallDate == ParseDate(call.preddate)

\* (P - months_off - months_back) <= E < (P - months_off)
InCohortWindow(E, P, months_off, months_back) ==
    /\ DateLE(AddMonths(AddMonths(P, - months_off), - months_back), E)
    /\ DateLT(E, AddMonths(P, - months_off))

\* P <= S < P + months_ahead
InForwardWindow(S, P, months_ahead) ==
    DateLE(P, S) /\ DateLT(S, AddMonths(P, months_ahead))

TanfSpells == { s \in ind_spells : s.benefit_type = "tanf46" }

\* tanf46 spells of entity r that start in the forward window
ForwardSpells(r, P, months_ahead) ==
    { s \in TanfSpells : s.recptno = r /\ InForwardWindow(s.start_date, P, months_ahead) }

\* tanf46 spells that end in the cohort window
CohortSpells(P, months_off, months_back) ==
    { s \in TanfSpells : InCohortWindow(s.end_date, P, months_off, months_back) }

\* The label table of the specification: one row per cohort spell, labelled 1
\* iff the entity has a forward spell.
ExpectedLabels(P, months_off, months_back, months_ahead) ==
    SetToBag({ LabelRow(s, IF ForwardSpells(s.recptno, P, months_ahead) # {} THEN 1 ELSE 0) :
                 s \in CohortSpells(P, months_off, months_back) })

\* The step is a generate_labels call (the cells change nb_temp and not call).
IsCallStep == nb_temp' = nb_temp /\ call' # NoCall

AllOnes(tbl) == \A x \in DOMAIN tbl : tbl[x] = 1

(***************************************************************************)
(* C1.  generate_labels with overwrite=False, called when labels_<date>     *)
(* exists, runs no DROP/CREATE (the stored tables stay as they are, no      *)
(* temporary table is created) and returns the stored table unchanged,      *)
(* whatever months_off, months_back and months_ahead are.                   *)
(***************************************************************************)
C1_Step ==
    (/\ IsCallStep
     /\ ~ call'.overwrite
     /\ LabelsName(TblSuffix(call'.preddate)) \in DOMAIN tables)
    => /\ tables' = tables
       /\ temp' = NoTables
       /\ printed' = "Table already exists"
       /\ FrameRows(df') = tables[LabelsName(TblSuffix(call'.preddate))]

C1_SkipReturnsStored == [][C1_Step]_vars

\* The table was kept although the parameters of the call give another table.
C1_Witness ==
    /\ Skipped
    /\ ~ call.overwrite
    /\ FrameRows(df) = tables[LabelsName(CallSfx)]
    /\ FrameRows(df) # ExpectedLabels(CallDate, call.months_off, call.months_back, call.months_ahead)

(***************************************************************************)
(* C2.  generate_labels with overwrite=True, or called when labels_<date>   *)
(* does not exist, rebuilds the table: after the call the stored table and  *)
(* the returned table are the label table of the current data for the       *)
(* parameters of this call.                                                 *)
(***************************************************************************)
C2_Step ==
    (/\ IsCallStep
     /\ \/ call'.overwrite
        \/ LabelsName(TblSuffix(call'.preddate)) \notin DOMAIN tables)
    => /\ LabelsName(TblSuffix(call'.preddate)) \in DOMAIN tables'
       /\ tables'[LabelsName(TblSuffix(call'.preddate))]
            = ExpectedLabels(ParseDate(call'.preddate), call'.months_off,
                             call'.months_back, call'.months_ahead)
       /\ FrameRows(df') = tables'[LabelsName(TblSuffix(call'.preddate))]
       /\ printed' = "Creating table"

C2_RebuildStoresCurrent == [][C2_Step]_vars

\* An overwriting call has rebuilt a table with rows of both labels.
C2_Witness ==
    /\ Built
    /\ call.overwrite
    /\ FrameRows(df) = tables[LabelsName(CallSfx)]
    /\ \E i \in DOMAIN df : df[i].label = 1
    /\ \E i \in DOMAIN df : df[i].label = 0

(***************************************************************************)
(* C3.  In every row of a label table built by generate_labels, and of the  *)
(* table of the hard-coded label cell, label is 1 iff the entity of the     *)
(* row has a tanf46 spell that starts in [P, P + months_ahead), else 0.     *)
(***************************************************************************)
LabelIffForward(tbl, P, months_ahead) ==
    \A row \in DOMAIN tbl :
        /\ row.label \in {0, 1}
        /\ row.label = 1 <=> ForwardSpells(row.recptno, P, months_ahead) # {}

C3_LabelIffForwardSpell ==
    /\ Built => LabelIffForward(tables[LabelsName(CallSfx)], CallDate, call.months_ahead)
    /\ LabelName(CellSuffix) \in DOMAIN nb_temp
         => LabelIffForward(nb_temp[LabelName(CellSuffix)], CellDate, CellMonthsAhead)

\* A built table holds an entity labelled 1 whose forward spell starts exactly
\* at P, and an entity labelled 0.
C3_Witness ==
    /\ Built
    /\ \E x, z \in DOMAIN tables[LabelsName(CallSfx)] :
          /\ x.label = 1
          /\ z.label = 0
          /\ \A s \in ForwardSpells(x.recptno, CallDate, call.months_ahead) :
                s.start_date = CallDate

(***************************************************************************)
(* C4 (as stated).  No recptno appears in more than one row of a label      *)
(* table.                                                                   *)
(***************************************************************************)
OneRowPerEntity(tbl) == \A x \in DOMAIN tbl : Matches(tbl, x.recptno) = 1

C4_OneRowPerEntity ==
    /\ Built => OneRowPerEntity(tables[LabelsName(CallSfx)])
    /\ LabelName(CellSuffix) \in DOMAIN nb_temp
         => OneRowPerEntity(nb_temp[LabelName(CellSuffix)])

(***************************************************************************)
(* C4 (amended).  The label table holds exactly one row per cohort spell:   *)
(* an entity has as many rows as it has tanf46 spells that end inside the   *)
(* cohort window, each of them once (the join with cohort_returned does     *)
(* not multiply rows).                                                      *)
(***************************************************************************)
OneRowPerCohortSpell(tbl, P, months_off, months_back) ==
    /\ AllOnes(tbl)
    /\ { Project(x) : x \in DOMAIN tbl }
         = { Project(s) : s \in CohortSpells(P, months_off, months_back) }
    /\ \A r \in Recptnos :
          Matches(tbl, r) =
             Cardinality({ s \in CohortSpells(P, months_off, months_back) : s.recptno = r })

C4_OneRowPerCohortSpell ==
    /\ Built => OneRowPerCohortSpell(tables[LabelsName(CallSfx)], CallDate,
                                     call.months_off, call.months_back)
    /\ LabelName(CellSuffix) \in DOMAIN nb_temp
         => OneRowPerCohortSpell(nb_temp[LabelName(CellSuffix)], CellDate,
                                 CellMonthsOff, CellMonthsBack)

\* An entity with two spells ending inside the cohort window has two rows,
\* both labelled 1.
C4_Witness ==
    /\ Built
    /\ \E x \in DOMAIN tables[LabelsName(CallSfx)] :
          /\ x.label = 1
          /\ Matches(tables[LabelsName(CallSfx)], x.recptno) = 2

(***************************************************************************)
(* C5 (as stated).  When a cohort entity has several forward-window spells, *)
(* the start_date of its label-table row is the start date of the earliest  *)
(* forward spell.                                                           *)
(***************************************************************************)
IsEarliestForward(d, r, P, months_ahead) ==
    /\ \E s \in ForwardSpells(r, P, months_ahead) : s.start_date = d
    /\ \A s \in ForwardSpells(r, P, months_ahead) : DateLE(d, s.start_date)

SeveralForward(r, P, months_ahead) == Cardinality(ForwardSpells(r, P, months_ahead)) >= 2

StartIsEarliestForward(tbl, P, months_ahead) ==
    \A row \in DOMAIN tbl :
        SeveralForward(row.recptno, P, months_ahead)
            => IsEarliestForward(row.start_date, row.recptno, P, months_ahead)

C5_StartIsEarliestForward ==
    Built => StartIsEarliestForward(tables[LabelsName(CallSfx)], CallDate, call.months_ahead)

(***************************************************************************)
(* C5 (amended).  When a cohort entity has several forward-window spells,   *)
(* each of its label-table rows carries the start_date and end_date of one  *)
(* of its cohort spells (a spell that ended inside the cohort window) and   *)
(* label 1; the start date of the earliest forward spell is stored in the   *)
(* entity's row of cohort_returned, not in the label table.                 *)
(***************************************************************************)
StartIsCohortSpell(tbl, returned_tbl, P, months_off, months_back, months_ahead) ==
    \A row \in DOMAIN tbl :
        SeveralForward(row.recptno, P, months_ahead)
            => /\ row.label = 1
               /\ \E s \in CohortSpells(P, months_off, months_back) : Project(s) = Project(row)
               /\ \E b \in DOMAIN returned_tbl :
                     /\ b.recptno = row.recptno
                     /\ IsEarliestForward(b.start_date, row.recptno, P, months_ahead)

C5_StartIsCohortSpell ==
    /\ Built => StartIsCohortSpell(tables[LabelsName(CallSfx)], temp[ReturnedName(CallSfx)],
                                   CallDate, call.months_off, call.months_back,
                                   call.months_ahead)
    /\ LabelName(CellSuffix) \in DOMAIN nb_temp
         => StartIsCohortSpell(nb_temp[LabelName(CellSuffix)],
                               nb_temp[ReturnedName(CellSuffix)],
                               CellDate, CellMonthsOff, CellMonthsBack, CellMonthsAhead)

\* A cohort entity has two forward spells that start on different dates.
C5_Witness ==
    /\ Built
    /\ \E row \in DOMAIN tables[LabelsName(CallSfx)] :
          \E s, t \in ForwardSpells(row.recptno, CallDate, call.months_ahead) :
              DateLT(s.start_date, t.start_date)

(***************************************************************************)
(* C6 (as stated).  With distinct scores precision_at_k labels exactly the  *)
(* top floor(k*n) scores as positive and returns the precision among them;  *)
(* for the worked example (k = 0.3, n = 10) it selects the three scores     *)
(* .9, .8, .7 and returns 2/3.                                              *)
(***************************************************************************)
Distinct(scores) ==
    \A i, j \in 1 .. Len(scores) : i # j => scores[i] # scores[j]

\* number of scores strictly above scores[i]
RankOf(scores, i) == Cardinality({ j \in 1 .. Len(scores) : scores[j] > scores[i] })

Positives(pred) == { i \in 1 .. Len(pred) : pred[i] = 1 }

C6_TopFloorKN ==
    (pk.pc = "returned" /\ Distinct(y_scores))
    => /\ Cardinality(Positives(pk.y_pred)) = (k.num * Len(y_scores)) \div k.den
       /\ \A i \in 1 .. Len(y_scores) :
             pk.y_pred[i] = 1 <=> RankOf(y_scores, i) < (k.num * Len(y_scores)) \div k.den
       /\ (y_true = ExampleTrue /\ y_scores = ExampleScores /\ k = ExampleK)
             => /\ { y_scores[i] : i \in Positives(pk.y_pred) } = {90, 80, 70}
                /\ pk.result.num * 3 = pk.result.den * 2

(***************************************************************************)
(* C7 (as stated).  precision_at_k takes as threshold the score at         *)
(* 0-indexed position floor(k*n) of the scores sorted in descending order,  *)
(* labels positive                                                          *)
(* exactly the rows whose score is >= the threshold (scores that tie with   *)
(* the threshold included, so more than floor(k*n) rows are positive) and   *)
(* returns the precision of that labelling.                                 *)
(***************************************************************************)
\* pos = floor(k*n), and t is the score at 0-indexed position pos of the
\* descending order: at most pos scores are above t, more than pos are >= t.
IsScoreAtFloorKN(t, pos) ==
    /\ pos * k.den <= k.num * Len(y_scores)
    /\ k.num * Len(y_scores) < (pos + 1) * k.den
    /\ \E i \in 1 .. Len(y_scores) : y_scores[i] = t
    /\ Cardinality({ i \in 1 .. Len(y_scores) : y_scores[i] > t }) <= pos
    /\ Cardinality({ i \in 1 .. Len(y_scores) : y_scores[i] >= t }) > pos

C7_ThresholdWithTies ==
    pk.pc = "returned"
    => /\ \E pos \in 0 .. Len(y_scores) - 1 :
             /\ IsScoreAtFloorKN(pk.threshold, pos)
             /\ Cardinality(Positives(pk.y_pred)) > pos
       /\ Len(pk.y_pred) = Len(y_scores)
       /\ \A i \in 1 .. Len(y_scores) :
             /\ pk.y_pred[i] \in {0, 1}
             /\ pk.y_pred[i] = 1 <=> y_scores[i] >= pk.threshold
       /\ pk.result.den = Cardinality(Positives(pk.y_pred))
       /\ pk.result.num = Cardinality({ i \in Positives(pk.y_pred) : y_true[i] = 1 })

\* t is the score at 0-indexed position pos of the descending order.
IsScoreAtPosition(t, pos) ==
    /\ \E i \in 1 .. Len(y_scores) : y_scores[i] = t
    /\ Cardinality({ i \in 1 .. Len(y_scores) : y_scores[i] > t }) <= pos
    /\ Cardinality({ i \in 1 .. Len(y_scores) : y_scores[i] >= t }) > pos

\* The index int(k*n) is floor(k*n), or one less where k*n is an integer that
\* the floating-point product misses.
IndexNearFloor(pos) ==
    \/ pos = (k.num * Len(y_scores)) \div k.den
    \/ /\ pos = ((k.num * Len(y_scores)) \div k.den) - 1
       /\ (k.num * Len(y_scores)) % k.den = 0

\* C7 (amended): the threshold is the score at the 0-indexed position
\* int(k*n) of the descending scores, the product taken in floating point;
\* every row whose score is >= the threshold is labelled positive, ties
\* included, and the result is the precision of that labelling.
C7_ThresholdAtIndex ==
    pk.pc = "returned"
    => /\ IndexNearFloor(Position(k, Len(y_scores)))
       /\ IsScoreAtPosition(pk.threshold, Position(k, Len(y_scores)))
       /\ Cardinality(Positives(pk.y_pred)) > Position(k, Len(y_scores))
       /\ Len(pk.y_pred) = Len(y_scores)
       /\ \A i \in 1 .. Len(y_scores) :
             /\ pk.y_pred[i] \in {0, 1}
             /\ pk.y_pred[i] = 1 <=> y_scores[i] >= pk.threshold
       /\ pk.result.den = Cardinality(Positives(pk.y_pred))
       /\ pk.result.num = Cardinality({ i \in Positives(pk.y_pred) : y_true[i] = 1 })

\* Scores tie at the threshold and all of them are labelled positive: the
\* positives are more than floor(k*n) + 1.
C7_Witness ==
    /\ pk.pc = "returned"
    /\ Cardinality({ i \in 1 .. Len(y_scores) : y_scores[i] = pk.threshold }) >= 2
    /\ \A i \in 1 .. Len(y_scores) : y_scores[i] = pk.threshold => pk.y_pred[i] = 1
    /\ Cardinality(Positives(pk.y_pred)) > ((k.num * Len(y_scores)) \div k.den) + 1
    /\ \E i \in 1 .. Len(y_scores) : pk.y_pred[i] = 0

(***************************************************************************)
(* C8.  The cohort table holds exactly the tanf46 spells whose end date E   *)
(* satisfies (P - months_off - months_back) <= E < (P - months_off), each   *)
(* once: the lower bound is included, the upper bound excluded, and no      *)
(* spell of another benefit type is selected.                               *)
(***************************************************************************)
IsCohortOf(tbl, P, months_off, months_back) ==
    /\ AllOnes(tbl)
    /\ DOMAIN tbl =
         { Project(s) : s \in { t \in ind_spells :
              /\ t.benefit_type = "tanf46"
              /\ DateLE(AddMonths(AddMonths(P, - months_off), - months_back), t.end_date)
              /\ DateLT(t.end_date, AddMonths(P, - months_off)) } }

C8_CohortIsWindow ==
    /\ Built => IsCohortOf(temp[CohortName(CallSfx)], CallDate, call.months_off,
                           call.months_back)
    /\ CohortName(CellSuffix) \in DOMAIN nb_temp
         => IsCohortOf(nb_temp[CohortName(CellSuffix)], CellDate, CellMonthsOff,
                       CellMonthsBack)

\* The data hold a tanf46 spell that ends at the lower bound, one that ends at
\* the upper bound and a spell of another type that ends inside the window; the
\* cohort holds the first only.
C8_Witness ==
    /\ Built
    /\ \E s1, s2 \in TanfSpells, s3 \in ind_spells :
          /\ s1.end_date = AddMonths(AddMonths(CallDate, - call.months_off), - call.months_back)
          /\ s2.end_date = AddMonths(CallDate, - call.months_off)
          /\ s3.benefit_type # "tanf46"
          /\ InCohortWindow(s3.end_date, CallDate, call.months_off, call.months_back)
          /\ DOMAIN temp[CohortName(CallSfx)] = { Project(s1) }

(***************************************************************************)
(* C9 (as stated).  An entity is in the cohort only if its most recent      *)
(* tanf46 spell ends inside the cohort window.                              *)
(***************************************************************************)
MostRecentInWindow(tbl, P, months_off, months_back) ==
    \A a \in DOMAIN tbl :
        \A s \in TanfSpells :
            (/\ s.recptno = a.recptno
             /\ \A t \in TanfSpells : t.recptno = a.recptno => DateLE(t.end_date, s.end_date))
            => InCohortWindow(s.end_date, P, months_off, months_back)

C9_MostRecentSpellOnly ==
    Built => MostRecentInWindow(temp[CohortName(CallSfx)], CallDate, call.months_off,
                                call.months_back)

(***************************************************************************)
(* C10.  cohort_returned holds at most one row per entity; every row is a   *)
(* tanf46 spell of a cohort entity whose start date lies in                 *)
(* [P, P + months_ahead), and no qualifying spell of that entity starts     *)
(* earlier.                                                                 *)
(***************************************************************************)
IsOutcomeOf(returned_tbl, cohort_tbl, P, months_ahead) ==
    /\ AllOnes(returned_tbl)
    /\ \A b \in DOMAIN returned_tbl :
          /\ Matches(returned_tbl, b.recptno) = 1
          /\ \E a \in DOMAIN cohort_tbl : a.recptno = b.recptno
          /\ \E s \in TanfSpells : Project(s) = b
          /\ DateLE(P, b.start_date)
          /\ DateLT(b.start_date, AddMonths(P, months_ahead))
          /\ \A s \in TanfSpells :
                (/\ s.recptno = b.recptno
                 /\ DateLE(P, s.start_date)
                 /\ DateLT(s.start_date, AddMonths(P, months_ahead)))
                => DateLE(b.start_date, s.start_date)

C10_OutcomeIsEarliest ==
    /\ Built => IsOutcomeOf(temp[ReturnedName(CallSfx)], temp[CohortName(CallSfx)],
                            CallDate, call.months_ahead)
    /\ ReturnedName(CellSuffix) \in DOMAIN nb_temp
         => IsOutcomeOf(nb_temp[ReturnedName(CellSuffix)], nb_temp[CohortName(CellSuffix)],
                        CellDate, CellMonthsAhead)

\* A cohort entity has a spell that starts exactly at P and a later spell
\* inside the forward window; its row is the spell that starts at P.
C10_Witness ==
    /\ Built
    /\ \E b \in DOMAIN temp[ReturnedName(CallSfx)] :
          /\ b.start_date = CallDate
          /\ \E s \in ForwardSpells(b.recptno, CallDate, call.months_ahead) :
                DateLT(b.start_date, s.start_date)

(***************************************************************************)
(* The matrix notebook: vocabulary of the properties.                      *)
(***************************************************************************)
MxCleaned == mx.pc \in {"cleaned", "split"}

InRange(row) == ~IsNull(row.age_first_admit)
                   /\ AgeLow <= row.age_first_admit /\ row.age_first_admit <= AgeHigh

\* Rows of the matrix as loaded that belong to label row l.
RowsOf(l) == { i \in 1 .. Len(mx.loaded) :
                  /\ mx.loaded[i].inmate_doc_number = l.inmate_doc_number
                  /\ mx.loaded[i].recidivism = l.recidivism }

Kept == Len(mx.df)
DroppedMissing == mx.nrows_isnan
DroppedOutOfRange ==
    Cardinality({ i \in 1 .. Len(mx.loaded) : ~AnyNull(mx.loaded[i]) /\ ~InRange(mx.loaded[i]) })

\* C11 as stated: whatever the feature table holds, the rows kept, dropped for
\* a missing value and dropped for the age limits add up to the rows of the
\* label table, and every label row is in the joined matrix exactly once.
C11_CountsEqualLabelRows ==
    MxCleaned =>
        /\ Kept + DroppedMissing + DroppedOutOfRange = Cardinality(mx.labels)
        /\ \A l \in mx.labels : Cardinality(RowsOf(l)) = 1

\* C11, amended: the join drops no label row and repeats a label row once per
\* feature row of its entity; the three counts add up to the rows of the joined
\* matrix, which are the rows of the label table exactly when no labelled
\* entity has more than one feature row.
C11_CountsEqualJoinRows ==
    MxCleaned =>
        /\ Kept + DroppedMissing + DroppedOutOfRange = Len(mx.loaded)
        /\ \A l \in mx.labels :
              Cardinality(RowsOf(l)) =
                  IF FeatureMatches(mx.features, l) = {} THEN 1
                  ELSE Cardinality(FeatureMatches(mx.features, l))
        /\ \A i \in 1 .. Len(mx.loaded) : \E l \in mx.labels : i \in RowsOf(l)
        /\ (\A l \in mx.labels : Cardinality(FeatureMatches(mx.features, l)) <= 1)
              <=> Len(mx.loaded) = Cardinality(mx.labels)

\* A cleaned matrix in which one label row has two feature rows and another none.
C11_Witness ==
    /\ MxCleaned
    /\ \E l \in mx.labels : Cardinality(FeatureMatches(mx.features, l)) = 2
    /\ \E l \in mx.labels : FeatureMatches(mx.features, l) = {}
    /\ Len(mx.loaded) > Cardinality(mx.labels)

\* C12 as stated: with an empty label table every cleaning step completes
\* without raising and the matrix that results is empty.
C12_EmptyLabelsNoError ==
    (mx.labels = {} /\ mx.pc \in {"reported", "nan_dropped", "cleaned", "split"}) =>
        /\ mx.error = "none"
        /\ mx.df = <<>>

\* C13: after the cleaning cells, of the training and of the test matrix alike,
\* the rows left are exactly the loaded rows with no missing value whose age at
\* first admit lies in [14, 99], both limits included.
C13_CleanedRowsComplete ==
    MxCleaned =>
        /\ \A i \in 1 .. Len(mx.df) : ~AnyNull(mx.df[i]) /\ InRange(mx.df[i])
        /\ Len(mx.df) = Cardinality({ i \in 1 .. Len(mx.loaded) :
                                         ~AnyNull(mx.loaded[i]) /\ InRange(mx.loaded[i]) })

\* A cleaned training matrix that kept a row at the lower limit and lost a row
\* just below it.
C13_Witness ==
    /\ MxCleaned
    /\ mx.which = "train"
    /\ \E i \in 1 .. Len(mx.df) : mx.df[i].age_first_admit = AgeLow
    /\ \E i \in 1 .. Len(mx.loaded) : mx.loaded[i].age_first_admit = AgeLow - 1

\* The catalog entry of a table of the database.
Created(name) == CHOOSE t \in mx.catalog : t.name = name

\* C16: each matrix joins a feature table whose cutoff date lies strictly
\* before the first day of the outcome window of its label table: 2008-12-31
\* before 2009-01-01 for the training matrix, 2013-12-31 before 2014-01-01 for
\* the test matrix.
C16_NoTemporalLeakage ==
    mx.pc \notin {"start", "created"} =>
        /\ Created(mx.sources.features).kind = "features"
        /\ Created(mx.sources.labels).kind = "labels"
        /\ DateLT(Created(mx.sources.features).to, Created(mx.sources.labels).from)
        /\ mx.which = "train" =>
              /\ Created(mx.sources.features).to = MkDate(2008, 12, 31)
              /\ Created(mx.sources.labels).from = MkDate(2009, 1, 1)
        /\ mx.which = "test" =>
              /\ Created(mx.sources.features).to = MkDate(2013, 12, 31)
              /\ Created(mx.sources.labels).from = MkDate(2014, 1, 1)

\* The training matrix has been built and holds a row with features.
C16_Witness ==
    /\ mx.pc = "joined"
    /\ mx.which = "train"
    /\ \E row \in mx.db[TrainMatrixName] : ~AnyNull(row)

\* C14: thresholding maps every score strictly below the threshold to 0 and
\* every other score, a score equal to the threshold included, to 1; the
\* predictions are one per score and take no other value.
C14_ThresholdIsStrict ==
    th.pc = "done" =>
        /\ Len(th.predicted) = Len(th.scores)
        /\ \A i \in 1 .. Len(th.scores) :
              /\ th.predicted[i] \in {0, 1}
              /\ th.predicted[i] = 0 <=> th.scores[i] < th.threshold
              /\ th.predicted[i] = 1 <=> th.scores[i] >= th.threshold

\* The threshold of the notebook with a score equal to it, one below and one above.
C14_Witness ==
    /\ th.pc = "done"
    /\ th.threshold = CallThreshold
    /\ \E i, j, l \in 1 .. Len(th.scores) :
          /\ th.scores[i] = CallThreshold /\ th.predicted[i] = 1
          /\ th.scores[j] = CallThreshold - 1 /\ th.predicted[j] = 0
          /\ th.scores[l] = CallThreshold + 1 /\ th.predicted[l] = 1

\* a <= b for fractions with positive denominators.
FracLE(a, b) == a.num * b.den <= b.num * a.den

\* Of two calls on the same data, the one with the larger k returned no more.
NonIncreasing == (sweep.pc = "first" /\ pk.pc = "returned") => FracLE(pk.result, sweep.result)

\* C15 as stated: on separable data precision_at_k is defined for every k
\* above 0 up to and including 1, and a larger k never gives a larger result.
C15_DefinedAndNonIncreasing ==
    /\ pk.pc # "IndexError"
    /\ NonIncreasing

\* Forward spells of entity r that share the earliest start date.
EarliestForward(r, P, months_ahead) ==
    { s \in ForwardSpells(r, P, months_ahead) :
         \A u \in ForwardSpells(r, P, months_ahead) : DateLE(s.start_date, u.start_date) }

\* The last call repeats the arguments of the kept call, both with
\* overwrite=True, on the same ind_spells (no action changes ind_spells).
RepeatsEarlier == call.overwrite /\ call = earlier.call

\* C17 (as stated): any two calls with overwrite=True and the same preddate,
\* months_off, months_back and months_ahead leave labels_<date> with identical
\* content and return identical tables, including when several forward
\* spells of an entity tie on their start date.
C17_RepeatedCallsIdentical ==
    RepeatsEarlier =>
        /\ tables[LabelsName(CallSfx)] = earlier.labels
        /\ df = earlier.df

\* C17 (rows only): the two calls store the same rows and return frames with
\* the same rows; only the order of the rows in the frames is left open.
C17_RepeatedCallsSameRows ==
    RepeatsEarlier =>
        /\ tables[LabelsName(CallSfx)] = earlier.labels
        /\ FrameRows(df) = FrameRows(earlier.df)

\* Two overwriting calls with the same arguments have returned the same rows
\* in different orders.
C17_OrderDiffers ==
    /\ RepeatsEarlier
    /\ df # earlier.df

\* Two overwriting calls with the same arguments have returned while a cohort
\* entity has two forward spells with the same earliest start date and
\* different end dates.
C17_TiedForwardSpells ==
    /\ RepeatsEarlier
    /\ \E a \in DOMAIN tables[LabelsName(CallSfx)] :
          /\ a.label = 1
          /\ Cardinality(EarliestForward(a.recptno, CallDate, call.months_ahead)) >= 2

\* The label table of caller p's arguments.
ConcExpected(p) ==
    ExpectedLabels(ParseDate(ConcPredDate), conc.procs[p].months_off,
                   DefaultMonthsBack, DefaultMonthsAhead)

ConcAllDone == \A p \in Callers : conc.procs[p].pc = "done"

\* C18: the callers are not serialised (both may pass the check and both
\* build), and labels_<date> always holds the complete result of the caller
\* whose DROP/CREATE committed last, never rows of two results; a caller
\* whose CREATE met the other's uncommitted table has written nothing.
C18_LastWriterWins ==
    /\ LabelsName(ConcSfx) \in DOMAIN tables <=> conc.writes # <<>>
    /\ conc.writes # <<>> =>
          tables[LabelsName(ConcSfx)] = ConcExpected(conc.writes[Len(conc.writes)])
    /\ \A p \in Callers :
          conc.procs[p].pc = "done" => \E q \in Callers : FrameRows(conc.procs[p].df) = ConcExpected(q)
    /\ \A p \in Callers :
          conc.procs[p].pc \in {"blocked", "raised"} =>
              /\ \A i \in 1 .. Len(conc.writes) : conc.writes[i] # p
              /\ conc.procs[p].pc = "raised" => LabelsName(ConcSfx) \in DOMAIN tables

\* Both callers, with overwrite=False, passed the check and built different
\* results; both have finished and the table holds the second one.
C18_Witness ==
    /\ ConcAllDone
    /\ Len(conc.writes) = 2
    /\ \A p \in Callers : ~conc.procs[p].overwrite
    /\ ConcExpected(1) # ConcExpected(2)
    /\ ConcExpected(1) # EmptyBag
    /\ ConcExpected(2) # EmptyBag
    /\ tables[LabelsName(ConcSfx)] = ConcExpected(conc.writes[2])

\* Dates written YYYY-MM-DD: two years, and months and days that are each
\* other's digits.
FormattedDates ==
    { y \o <<"-">> \o m \o <<"-">> \o d :
        y \in { <<"2", "0", "0", "8">>, <<"2", "0", "0", "9">> },
        m \in { <<"0", "1">>, <<"1", "0">>, <<"1", "1">> },
        d \in { <<"0", "1">>, <<"1", "0">>, <<"1", "1">> } }

\* Distinct dates give distinct table names.
NamesAreDistinct ==
    \A d1, d2 \in FormattedDates \cup NotebookPredDates :
        d1 # d2 => LabelsName(TblSuffix(d1)) # LabelsName(TblSuffix(d2))

\* A call writes at most the table named after its own date and leaves every
\* other table as it was.
C19_Step ==
    IsCallStep =>
        /\ DOMAIN tables' = DOMAIN tables \cup {LabelsName(TblSuffix(call'.preddate))}
        /\ \A name \in DOMAIN tables :
              name # LabelsName(TblSuffix(call'.preddate)) => tables'[name] = tables[name]

\* C19: the name of the label table is a function of the prediction date
\* alone; distinct YYYY-MM-DD dates give distinct tables, and a call for one
\* date, with either overwrite value, leaves the tables of the other dates
\* unchanged.
C19_OtherDatesUntouched == []NamesAreDistinct /\ [][C19_Step]_vars

\* An overwriting call for 2009-01-01 has built its table while the table of
\* 2008-01-01, with other rows, is stored.
C19_Witness ==
    /\ Built
    /\ call.overwrite
    /\ call.preddate = <<"2", "0", "0", "9", "-", "0", "1", "-", "0", "1">>
    /\ LabelsName(CellSuffix) \in DOMAIN tables
    /\ tables[LabelsName(CellSuffix)] # EmptyBag
    /\ tables[LabelsName(CallSfx)] # EmptyBag
    /\ tables[LabelsName(CallSfx)] # tables[LabelsName(CellSuffix)]

\* C20 as stated: where the engine lacks FULL OUTER JOIN the cell does not
\* fail; the rows of the full outer join are obtained by an equivalent query.
C20_SubstituteRuns ==
    (oj.pc = "outer_done" /\ ~oj.full_outer_supported) =>
        /\ oj.outer.status = "ok"
        /\ oj.outer.rows = JoinRows(FullOuterPairs(oj.sentences, oj.inmate))

\* C20, amended: the FULL OUTER JOIN cell is sent as written; where the engine
\* lacks the join the cell ends in the engine's error and yields no rows, and
\* where the engine has it the cell yields the rows of the full outer join.
\* The LEFT JOIN cell before it yields its rows either way.
C20_FailsAtExecution ==
    oj.pc = "outer_done" =>
        /\ oj.left.status = "ok"
        /\ oj.left.rows = JoinRows(LeftPairs(oj.sentences, oj.inmate))
        /\ ~oj.full_outer_supported =>
              /\ oj.outer.status = "error"
              /\ oj.outer.rows = EmptyBag
        /\ oj.full_outer_supported =>
              /\ oj.outer.status = "ok"
              /\ oj.outer.rows = JoinRows(FullOuterPairs(oj.sentences, oj.inmate))

\* The cell has failed on tables for which the full outer join has a row that
\* the left join lacks.
C20_Witness ==
    /\ oj.pc = "outer_done"
    /\ ~oj.full_outer_supported
    /\ oj.outer.status = "error"
    /\ MatchedPairs(oj.sentences, oj.inmate) # {}
    /\ JoinRows(FullOuterPairs(oj.sentences, oj.inmate)) # oj.left.rows

(***************************************************************************)
(* generate_labels statement by statement: vocabulary of the properties.   *)
(***************************************************************************)
NoRepeat(log) == \A i, j \in 1 .. Len(log) : i # j => log[i] # log[j]

GlRaised == gl.pc = "raised"

\* A raised call names the statement that failed, which is the last one it
\* started, and no call starts a statement twice.
FailureIsSurfaced ==
    /\ NoRepeat(gl.log)
    /\ GlRaised =>
          /\ gl.error.kind # "none"
          /\ gl.log # <<>>
          /\ gl.error.step = gl.log[Len(gl.log)]
    /\ ~GlRaised => gl.error = NoError

\* After a call has raised, no statement of it runs: the permanent tables stay
\* as they are and the next statement to run is the connect of another call.
C21_Step ==
    GlRaised =>
        /\ tables' = tables
        /\ \/ gl'.calls = gl.calls + 1
           \/ gl'.log = gl.log /\ gl'.pc = "raised" /\ gl'.error = gl.error

\* C21: a failure of the connect, of the existence check, of a statement of
\* the build or of the final read is raised at that statement, the statement
\* is not retried, and no later statement of the call runs.
C21_FailureEndsTheCall == []FailureIsSurfaced /\ [][C21_Step]_vars

\* The second TEMP table failed: the cohort exists on the connection and the
\* label table was not created.
C21_Witness ==
    /\ GlRaised
    /\ gl.error = [step |-> "temp_returned", kind |-> "failure"]
    /\ gl.cohort # EmptyBag
    /\ LabelsName(ConcSfx) \notin DOMAIN tables

\* The statements of the build, as they appear in the log of a call.
BuildSteps == {"temp_cohort", "temp_returned", "create_labels", "alter_owner"}

LogSteps(log) == { log[i] : i \in 1 .. Len(log) }

AlterFailure == [step |-> "alter_owner", kind |-> "failure"]

\* The call before this one raised at the ownership change.
AlterFailedBefore == gl.prev.error = AlterFailure

\* The call is connected and runs with overwrite=False.
FollowsWithoutOverwrite == AlterFailedBefore /\ ~gl.overwrite /\ gl.conn # 0

\* C27: a call that raises at ALTER TABLE leaves labels_<date> in the
\* database; the next call, with overwrite=False, finds it, runs no statement
\* of the build and, unless one of its own statements fails, returns the rows
\* of the stored table.
C27_AlterFailureKeepsTable ==
    /\ (GlRaised /\ gl.error = AlterFailure) => LabelsName(ConcSfx) \in DOMAIN tables
    /\ FollowsWithoutOverwrite =>
          /\ LabelsName(ConcSfx) \in DOMAIN tables
          /\ LogSteps(gl.log) \cap BuildSteps = {}
          /\ gl.pc \in {"check", "cursor_close", "read", "returned", "raised"}
          /\ GlRaised => gl.error.kind = "failure" /\ gl.error.step \in {"check", "read"}
          /\ gl.pc \in {"cursor_close", "read", "returned"} => gl.printed = "Table already exists"
          /\ gl.pc = "returned" => FrameRows(gl.df) = tables[LabelsName(ConcSfx)]

\* The call after the failed ownership change has returned a table with rows.
C27_Witness ==
    /\ FollowsWithoutOverwrite
    /\ gl.pc = "returned"
    /\ gl.df # <<>>
    /\ FrameRows(gl.df) = tables[LabelsName(ConcSfx)]

\* C28: no call of a serial sequence fails because cohort_<date> or
\* cohort_returned_<date> exists: the connection of a call is a new one and
\* holds no TEMP table when the call starts.
C28_NoDuplicateTempTable ==
    /\ gl.error.kind # "DuplicateTable"
    /\ gl.pc \in {"check", "temp_cohort"} => gl.temps[gl.conn] = {}
    /\ gl.pc = "temp_returned" => gl.temps[gl.conn] = {CohortName(ConcSfx)}

\* A second call with overwrite=True has rebuilt the table and returned while
\* the connection of the first call, with both its TEMP tables, is still open.
C28_Witness ==
    /\ gl.pc = "returned"
    /\ gl.calls = 2
    /\ gl.overwrite
    /\ "temp_returned" \in LogSteps(gl.log)
    /\ \E c \in gl.open \ {gl.conn} :
          gl.temps[c] = {CohortName(ConcSfx), ReturnedName(ConcSfx)}

\* C30: when generate_labels has returned, its cursor is closed and no
\* connection it opened is still open.
C30_ClosedOnReturn == gl.pc = "returned" => ~gl.cursor /\ gl.open = {}

(***************************************************************************)
(* precision_at_k at the ends of its range and on the baselines.           *)
(***************************************************************************)
\* C25 as stated: every call of precision_at_k returns a value, for every k
\* from 0 to 1 and every score vector, the empty one included.
C25_ReturnsForEveryK ==
    pk.pc # "idle" => pk.pc = "returned" /\ pk.result.den > 0

\* C22 as stated: with distinct random scores the baseline labels positive
\* at most the floor(0.05*n) rows with the highest random scores (one more
\* for the row at the threshold position), and only rows that outrank the others.
C22_RandomMeasuresTopFive ==
    (pk.pc = "returned" /\ th.pc = "done" /\ k = TopFive /\ Distinct(th.scores))
    => /\ Cardinality(Positives(pk.y_pred)) <= Position(TopFive, Len(th.scores)) + 1
       /\ \A i, j \in 1 .. Len(th.scores) :
             (pk.y_pred[i] = 1 /\ pk.y_pred[j] = 0) => th.scores[i] > th.scores[j]

FracEq(a, b) == a.num * b.den = b.num * a.den

AllEqual(scores) == \A i, j \in 1 .. Len(scores) : scores[i] = scores[j]

\* fraction of positives in y_true
BaseRate == [num |-> Cardinality(Positives(y_true)), den |-> Len(y_true)]

\* precision among the rows scored 1
PrecisionAmongOnes ==
    [num |-> Cardinality({ i \in Positives(y_scores) : y_true[i] = 1 }),
     den |-> Cardinality(Positives(y_scores))]

\* C26: when precision_at_k returns on scores that are all equal, every row
\* is labelled positive and the result is the fraction of positives in
\* y_true; on 0/1 scores the result is either that fraction or the precision
\* among the rows scored 1, whatever k is.
C26_ConstantScoresGiveBaseRate ==
    (pk.pc = "returned" /\ th.pc = "done")
    => /\ AllEqual(y_scores) =>
             /\ \A i \in 1 .. Len(y_scores) : pk.y_pred[i] = 1
             /\ FracEq(pk.result, BaseRate)
       /\ \/ FracEq(pk.result, BaseRate)
          \/ Positives(y_scores) # {} /\ FracEq(pk.result, PrecisionAmongOnes)

\* All rows carry the same score, the truth is mixed and k is 0.9: every row
\* is labelled and the result is the base rate.
C26_Witness ==
    /\ pk.pc = "returned"
    /\ th.pc = "done"
    /\ Len(y_scores) >= 2
    /\ AllEqual(y_scores)
    /\ k = [num |-> 9, den |-> 10]
    /\ Positives(y_true) # {}
    /\ \E i \in 1 .. Len(y_true) : y_true[i] = 0
    /\ pk.result = BaseRate

(***************************************************************************)
(* The printed feature ranking.                                            *)
(***************************************************************************)
\* position of a name in sel_features
FeatureIndex(name) == CHOOSE i \in 1 .. Len(SelFeatureNames) : SelFeatureNames[i] = name

\* The values are printed from the largest to the smallest.
PrintedInRankOrder ==
    \A f, g \in 1 .. Len(fi.lines) :
        f < g => fi.lines[f].importance >= fi.lines[g].importance

\* C23 as stated: the importance printed on a line is the importance of the
\* feature named on that line.
C23_NameMatchesImportance ==
    /\ PrintedInRankOrder
    /\ \A f \in 1 .. Len(fi.lines) :
          fi.importances[FeatureIndex(fi.lines[f].name)] = fi.lines[f].importance

(***************************************************************************)
(* The model-comparison loop.                                              *)
(***************************************************************************)
\* The values of p_at_5 of the passes made so far, and 0.
SeenValues == {Zero} \cup { loop.hist[j].p_at_5 : j \in 1 .. Len(loop.hist) }

\* m is the largest of the values of S.
IsMaxOf(m, S) ==
    /\ \E v \in S : FracEq(m, v)
    /\ \A v \in S : ~Less(m, v)

MaxSoFar ==
    /\ Len(loop.hist) = loop.i
    /\ IsMaxOf(loop.max_p_at_k, SeenValues)
    /\ \A j \in 1 .. Len(loop.hist) :
          /\ loop.hist[j].clf = SelClfs[j]
          /\ loop.hist[j].clf \in loop.fitted
          /\ IsMaxOf(loop.hist[j].max_p_at_k,
                     {Zero} \cup { loop.hist[i].p_at_5 : i \in 1 .. j })
    /\ loop.pc = "done" => loop.i = Len(SelClfs)

\* Every step leaves max_p_at_k as it is or raises it, and a classifier is
\* scored only after it was fitted.
C24_Step ==
    /\ ~Less(loop'.max_p_at_k, loop.max_p_at_k)
    /\ loop'.i = loop.i + 1 => SelClfs[loop'.i] \in loop.fitted

\* C24: after every pass max_p_at_k is the largest of 0 and the precisions at
\* 5% of the classifiers processed so far, it never decreases, after the loop
\* it is the best over DT, RF, ET and GB, and each classifier was fitted
\* before it was scored.
C24_MaxIsBestSoFar == []MaxSoFar /\ [][C24_Step]_vars

\* The loop is over, the second classifier had the best precision at 5% and
\* the last one a lower one: the maximum is the value of the second.
C24_Witness ==
    /\ loop.pc = "done"
    /\ Less(loop.hist[1].p_at_5, loop.hist[2].p_at_5)
    /\ Less(loop.hist[4].p_at_5, loop.hist[2].p_at_5)
    /\ ~Less(loop.hist[2].p_at_5, loop.hist[3].p_at_5)
    /\ loop.max_p_at_k = loop.hist[2].p_at_5

(***************************************************************************)
(* Repeated runs of the matrix cells.                                      *)
(***************************************************************************)
\* The matrix, where it exists, is the left join of its two tables.
MatrixIsJoin(db, matrixName, labelsName, featuresName) ==
    matrixName \in DOMAIN db => db[matrixName] = LeftJoin(db[labelsName], db[featuresName])

MatricesAreJoins ==
    /\ mx.error = "none"
    /\ mx.pc # "raised"
    /\ MatrixIsJoin(mx.db, TrainMatrixName, TrainLabelsName, TrainFeaturesName)
    /\ MatrixIsJoin(mx.db, TestMatrixName, TestLabelsName, TestFeaturesName)
    /\ mx.pc \in {"joined", "rerun"} => mx.sources.labels \in DOMAIN mx.db

\* A run of a cell leaves its matrix in place and the other tables as they were.
C29_Step ==
    /\ mx'.which = "train" => TrainMatrixName \in DOMAIN mx'.db
    /\ mx'.which = "test" => TestMatrixName \in DOMAIN mx'.db
    /\ \A n \in DOMAIN mx.db :
          (n \in DOMAIN mx'.db) /\ (n \notin {TrainMatrixName, TestMatrixName} => mx'.db[n] = mx.db[n])
    /\ DOMAIN mx'.db \subseteq DOMAIN mx.db \cup {TrainMatrixName, TestMatrixName}

\* C29: however often and in whatever order the two matrix cells run, no run
\* fails because its table exists, and each matrix that was built is there
\* once and is the left join of its label table with its feature table.
C29_CellsAreRerunnable == []MatricesAreJoins /\ [][C29_Step]_vars

\* The training cell has run again on an existing train_matrix, after the
\* test cell: both matrices exist and the training matrix has a row without
\* features.
C29_Witness ==
    /\ mx.pc = "rerun"
    /\ mx.which = "train"
    /\ TestMatrixName \in DOMAIN mx.db
    /\ TrainMatrixName \in DOMAIN mx.db
    /\ \E r \in mx.db[TrainMatrixName] : IsNull(r.age)
    /\ mx.db[TrainMatrixName] # mx.db[TestMatrixName]

====
